---- MODULE Spec2Model ----
(***************************************************************************)
(* Verification model of the rental-village social bot: the content        *)
(* strategy engine (src/src/utils/content_strategy_engine.py) and the      *)
(* content generation orchestrator (src/src/suggest_content.py).           *)
(*                                                                         *)
(* Strings that the code slices or concatenates are sequences of           *)
(* characters.  Floating point quantities are exact scaled integers:       *)
(* pillar weights in hundredths, the seasonal boost in tenths, priority    *)
(* scores in thousandths of a point.                                       *)
(***************************************************************************)
EXTENDS Integers, Sequences, FiniteSets, TLC

(***************************************************************************)
(* Bounds of the model                                                     *)
(***************************************************************************)
MaxIdeas == 2
MaxPlanIdeas == 3
MaxCount == 6
MaxBodyLen == 80
MaxLimit == 50
MaxRoll == 5
MaxOrchRoll == 2
MaxEquipment == 4
MaxImages == 3
MaxLoads == 2
MaxPages == 3
MaxCycles == 2
MaxChecks == 2

(***************************************************************************)
(* Python helpers                                                          *)
(***************************************************************************)

Min(a, b) == IF a < b THEN a ELSE b

\* s[:k] with Python's slice semantics: a negative k counts from the end.
PySlicePrefix(s, k) ==
    LET stop == IF k < 0 THEN (IF (Len(s) + k) > 0 THEN (Len(s) + k) ELSE 0) ELSE Min(k, Len(s))
    IN  SubSeq(s, 1, stop)

Range(s) == {s[i] : i \in DOMAIN s}

\* random.choice(lst) for the random number r
Pick(lst, r) == lst[(r % Len(lst)) + 1]

\* [x for x in lst if Test(x)]
RECURSIVE SelectSeqIdx(_, _, _)
SelectSeqIdx(lst, keep, i) ==
    IF i > Len(lst) THEN <<>>
    ELSE (IF lst[i] \in keep THEN <<lst[i]>> ELSE <<>>) \o SelectSeqIdx(lst, keep, i + 1)

Filter(lst, keep) == SelectSeqIdx(lst, keep, 1)

(***************************************************************************)
(* ContentStrategyEngine                                                   *)
(***************************************************************************)
\* the pillars named by pillar_categories
pillar_categories ==
    [equipment_spotlight |-> <<"Earth Moving Equipment", "Concrete Equipment", "Lift-Scaffold-Fence", "Compaction Equipment">>,
     project_showcase    |-> <<"Earth Moving Equipment", "Concrete Equipment", "Drills & Breakers", "Saws">>,
     industry_focus      |-> <<"Earth Moving Equipment", "Lawn & Garden", "Concrete Equipment", "Moving Equipment">>,
     seasonal_content    |-> <<"Lawn Care", "Heating", "Generators & Cords", "Pumps: Gas & Electric">>,
     safety_training     |-> <<"Drills & Breakers", "Lift-Scaffold-Fence", "Saws", "Earth Moving Equipment">>,
     educational_content |-> <<"Hand Tools", "Measuring Equipment", "Floor Equipment", "Fastening Tools">>,
     customer_success    |-> <<"Earth Moving Equipment", "Concrete Equipment", "Lifts">>,
     maintenance_tips    |-> <<"Generators & Cords", "Pumps: Gas & Electric", "Air Compressors & Tools">>]

\* self.pillar_categories.get(pillar, default)
PillarCategoriesGet(pillar, default) ==
    IF pillar \in DOMAIN pillar_categories THEN pillar_categories[pillar] ELSE default

\* category_mapping.get(p, 'Lawn & Garden')
category_mapping(p) ==
    CASE p = "landscaping"       -> "Lawn & Garden"
      [] p = "construction"      -> "Earth Moving Equipment"
      [] p = "snow-removal"      -> "Moving Equipment"
      [] p = "agriculture"       -> "Tillers"
      [] p = "material-handling" -> "Moving Equipment"
      [] p = "leaf-blowers"      -> "Blower/Sprayer"
      [] p = "chippers"          -> "Wood Chipper"
      [] p = "excavation"        -> "Earth Moving Equipment"
      [] p = "cleanup"           -> "Moving Equipment"
      [] p = "heaters"           -> "Heating"
      [] p = "indoor-tools"      -> "Hand Tools"
      [] p = "pumps"             -> "Pumps: Gas & Electric"
      [] p = "generators"        -> "Generators & Cords"
      [] OTHER                   -> "Lawn & Garden"

\* dict.keys() and dict.values() of a dict kept as a list of [k, v] items
Keys(d) == [i \in DOMAIN d |-> d[i].k]

Values(d) == [i \in DOMAIN d |-> d[i].v]

RECURSIVE SumSeq(_)
SumSeq(s) == IF s = <<>> THEN 0 ELSE Head(s) + SumSeq(Tail(s))

\* d.get(key, default)
DictGet(d, key, default) ==
    IF \E i \in DOMAIN d : d[i].k = key
    THEN d[CHOOSE i \in DOMAIN d : d[i].k = key].v
    ELSE default

\* selection weights without the fallback for a zero total
PillarProbabilitiesNoFallback(cfg) ==
    [i \in DOMAIN cfg.pillar_weights |->
        IF cfg.pillar_weights[i].k = "seasonal_content"
        THEN cfg.pillar_weights[i].v * cfg.boost10 ELSE cfg.pillar_weights[i].v * 10]

\* _select_strategic_pillar: the selection weights handed to random.choices,
\* as integer numerators over one common denominator
PillarProbabilities(cfg) ==
    LET pillars == Keys(cfg.pillar_weights)
        weights == Values(cfg.pillar_weights)
        total   == SumSeq(weights)
        base    == IF total > 0 THEN weights ELSE [i \in DOMAIN pillars |-> 1]
    IN  [i \in DOMAIN pillars |->
            IF pillars[i] = "seasonal_content"
            THEN base[i] * cfg.boost10 ELSE base[i] * 10]

\* _select_strategic_pillar raises ZeroDivisionError: 1.0 / len(pillars) with
\* no pillar, or the renormalisation by a zero total
PillarZeroDivision(cfg) ==
    \/ SumSeq(Values(cfg.pillar_weights)) <= 0 /\ Len(cfg.pillar_weights) = 0
    \/ SumSeq(PillarProbabilities(cfg)) = 0

\* random.choices(population, weights)[0]: the candidates with positive weight
Choices(population, weights) ==
    SelectSeqIdx(population, {population[i] : i \in {j \in DOMAIN population : weights[j] > 0}}, 1)

_select_strategic_pillar(cfg, r) ==
    Pick(Choices(Keys(cfg.pillar_weights), PillarProbabilities(cfg)), r)

\* _select_optimal_platform
_select_optimal_platform(cfg, pillar, r) ==
    IF pillar = "equipment_spotlight" THEN Pick(<<"Instagram", "Facebook">>, r)
    ELSE IF pillar = "project_showcase" THEN Pick(<<"Instagram", "Facebook">>, r)
    ELSE IF pillar = "educational_content" THEN Pick(<<"Blog", "Facebook">>, r)
    ELSE IF pillar = "safety_training" THEN Pick(<<"Blog", "Facebook">>, r)
    ELSE LET platforms == Keys(cfg.platform_preferences)
             weights   == Values(cfg.platform_preferences)
         IN  IF SumSeq(weights) > 0
             THEN Pick(Choices(platforms, weights), r)
             ELSE "Facebook"

\* _select_equipment_category
_select_equipment_category(cfg, pillar, r) ==
    LET available_categories == PillarCategoriesGet(pillar, <<"Earth Moving Equipment">>)
        seasonal_priorities  == cfg.seasonal_equipment_priority
        seasonal_categories  == [i \in DOMAIN seasonal_priorities |->
                                    category_mapping(seasonal_priorities[i])]
        available_seasonal   == Filter(seasonal_categories, Range(PillarCategoriesGet(pillar, <<>>)))
        available_high_margin == Filter(<<"Compaction", "Concrete", "Demolition">>, Range(available_categories))
    IN  IF pillar = "seasonal_content" /\ seasonal_priorities # <<>>
        THEN (IF available_seasonal # <<>>
              THEN Pick(available_seasonal, r)
              ELSE Pick(seasonal_categories, r))
        ELSE IF cfg.rules.prioritizeHighMargin /\ available_high_margin # <<>>
        THEN Pick(available_high_margin, r)
        ELSE Pick(available_categories, r)

\* _get_seasonal_context
_get_seasonal_context(cfg, pillar, r) ==
        \* current_season.title()
    LET Title(season) ==
            CASE season = "winter" -> "Winter"
              [] season = "spring" -> "Spring"
              [] season = "summer" -> "Summer"
              [] season = "fall"   -> "Fall"
              [] OTHER             -> season
    IN  IF pillar = "seasonal_content" /\ cfg.seasonal_themes # <<>>
        THEN Pick(cfg.seasonal_themes, r)
        ELSE [text |-> <<Title(cfg.current_season), "Context">>, mentions |-> {cfg.current_season}]

ScoreScale == 1000

\* a score that is not capped
CapScoreNone(score) == score

\* line 247: min(score, 100.0)
CapScore(score) == Min(score, 100 * ScoreScale)

\* _calculate_priority_score, in thousandths of a point; equipment_count is
\* what _get_available_equipment_count returned
_calculate_priority_score(cfg, pillar, seasonal_context, equipment_count) ==
    LET pillar_weight == DictGet(cfg.pillar_weights, pillar, 10)
        base      == (50 * 100 + pillar_weight * 40) * 10
        seasonal  == IF (pillar \in {"seasonal_content", "seasonalContent"}) \/ cfg.current_season \in seasonal_context.mentions
                     THEN (50 * 100 + pillar_weight * 40) * cfg.boost10
                     ELSE base
        withCount == IF equipment_count > 0
                     THEN seasonal + Min(equipment_count * 2, 10) * ScoreScale
                     ELSE seasonal
        withRules == IF cfg.rules.prioritizeNewEquipment
                     THEN withCount + 5 * ScoreScale
                     ELSE withCount
    IN  CapScore(withRules)

\* _generate_business_rationale: the parts joined by "; "
_generate_business_rationale(cfg, pillar, equipment_category, seasonal_context) ==
    <<pillar>>
    \o (IF equipment_category # "" THEN <<equipment_category>> ELSE <<>>)
    \o (IF cfg.current_season \in seasonal_context.mentions THEN <<cfg.current_season>> ELSE <<>>)

\* One iteration of the loop of plan_strategic_content: the ContentPlan built
\* from the random number r and the live equipment count.
ContentPlan(cfg, r, equipment_count) ==
    LET pillar   == _select_strategic_pillar(cfg, r)
        np       == Len(cfg.pillar_weights)
        platform == _select_optimal_platform(cfg, pillar, r \div np)
        equipment_category == _select_equipment_category(cfg, pillar, r \div (np * 2))
        seasonal_context   == _get_seasonal_context(cfg, pillar, r \div (np * 2))
    IN  [pillar |-> pillar,
         target_platform |-> platform,
         equipment_category |-> equipment_category,
         seasonal_context |-> seasonal_context,
         priority_score |->
             _calculate_priority_score(cfg, pillar, seasonal_context, equipment_count),
         business_rationale |->
             _generate_business_rationale(cfg, pillar, equipment_category, seasonal_context)]

\* the sort with the comparison reversed: lowest score first
RECURSIVE InsertPlanAscending(_, _)
InsertPlanAscending(sorted, p) ==
    IF sorted = <<>> THEN <<p>>
    ELSE IF Head(sorted).priority_score <= p.priority_score
    THEN <<Head(sorted)>> \o InsertPlanAscending(Tail(sorted), p)
    ELSE <<p>> \o sorted

\* plans.sort(key=lambda p: p.priority_score, reverse=True): a stable sort,
\* plans of equal score keep their order
RECURSIVE InsertPlan(_, _)
InsertPlan(sorted, p) ==
    IF sorted = <<>> THEN <<p>>
    ELSE IF Head(sorted).priority_score >= p.priority_score
    THEN <<Head(sorted)>> \o InsertPlan(Tail(sorted), p)
    ELSE <<p>> \o sorted

RECURSIVE SortPlans(_)
SortPlans(plans) ==
    IF plans = <<>> THEN <<>>
    ELSE InsertPlan(SortPlans(SubSeq(plans, 1, Len(plans) - 1)), plans[Len(plans)])

\* plan_strategic_content for the given per-idea random numbers and counts
plan_strategic_content(cfg, draws) ==
    SortPlans([i \in DOMAIN draws |-> ContentPlan(cfg, draws[i].r, draws[i].count)])

\* equipment_list.sort(key=popularity_score or 0[, reverse=True]): stable
RECURSIVE InsertEquipment(_, _, _)
InsertEquipment(sorted, e, ascending) ==
    IF sorted = <<>> THEN <<e>>
    ELSE IF (IF ascending
             THEN Head(sorted).popularity_score <= e.popularity_score
             ELSE Head(sorted).popularity_score >= e.popularity_score)
    THEN <<Head(sorted)>> \o InsertEquipment(Tail(sorted), e, ascending)
    ELSE <<e>> \o sorted

RECURSIVE SortEquipment(_, _)
SortEquipment(lst, ascending) ==
    IF lst = <<>> THEN <<>>
    ELSE InsertEquipment(SortEquipment(SubSeq(lst, 1, Len(lst) - 1), ascending),
                         lst[Len(lst)], ascending)

default_max_equipment == 3

\* a limit that ignores what is configured
MaxEquipmentDefaultOnly(rules) == default_max_equipment

\* line 325: equipment_rules.get('maxEquipmentPerPost', 3)
MaxEquipmentPerPost(rules) ==
    IF rules.hasMaxEquipmentPerPost THEN rules.maxEquipmentPerPost ELSE default_max_equipment

\* a default target without its reason
DefaultTargetNoReason(plan) ==
    [category |-> plan.equipment_category,
     specific_equipment_ids |-> <<>>,
     priority_reasons |-> <<>>]

\* lines 346-353: the EquipmentTarget returned by the exception handler
DefaultTarget(plan) ==
    [category |-> plan.equipment_category,
     specific_equipment_ids |-> <<>>,
     priority_reasons |-> <<"Default equipment selection">>]

\* get_equipment_targets: query is what the catalog query did, failed or a
\* result list
get_equipment_targets(cfg, plan, query) ==
    IF query.failed
    THEN DefaultTarget(plan)
    ELSE LET equipment_list == SortEquipment(query.result, cfg.rules.prioritizeUnderutilized)
             selected_equipment == PySlicePrefix(equipment_list, MaxEquipmentPerPost(cfg.rules))
         IN  [category |-> plan.equipment_category,
              specific_equipment_ids |-> [i \in DOMAIN selected_equipment |-> selected_equipment[i]._id],
              priority_reasons |->
                  (IF cfg.rules.prioritizeNewEquipment THEN <<"Recently added equipment">> ELSE <<>>)
                  \o (IF cfg.rules.prioritizeUnderutilized
                      THEN <<"Underutilized equipment needing promotion">> ELSE <<>>)
                  \o <<"Seasonal relevance">>]

(***************************************************************************)
(* ConfigurationLoader (config_loader.py)                                  *)
(***************************************************************************)
\* the four configuration fields, in the order load_all_configurations loads them
ConfigFields == <<"content_strategy", "seasonal_config", "image_config", "platform_config">>

\* what the query of one _load_* method does: an active document, no active
\* document, or an exception; the method returns None for the last two
LoadAnswers == {"document", "no_document", "raises"}

\* __init__: the four fields are None
NoFields == [f \in Range(ConfigFields) |-> <<>>]

\* a load that goes on to the next document after a failed one
RECURSIVE LoadFromNoEarlyReturn(_, _, _, _)
LoadFromNoEarlyReturn(fields, answers, k, gen) ==
    IF k > Len(ConfigFields) THEN [fields |-> fields, ok |-> TRUE, queries |-> ConfigFields]
    ELSE LET loaded == IF answers[k] = "document" THEN <<gen>> ELSE <<>>
             rest   == LoadFromNoEarlyReturn([fields EXCEPT ![ConfigFields[k]] = loaded],
                                             answers, k + 1, gen)
         IN  [rest EXCEPT !.ok = rest.ok /\ loaded # <<>>]

\* load_all_configurations from its k-th document on: each field is assigned
\* what its _load_* method returned, and a None ends the call with False;
\* gen tells the documents of this call from those of another call
RECURSIVE LoadFrom(_, _, _, _)
LoadFrom(fields, answers, k, gen) ==
    IF k > Len(ConfigFields) THEN [fields |-> fields, ok |-> TRUE, queries |-> ConfigFields]
    ELSE LET loaded == IF answers[k] = "document" THEN <<gen>> ELSE <<>>
             after  == [fields EXCEPT ![ConfigFields[k]] = loaded]
         IN  IF loaded = <<>>
             THEN [fields |-> after, ok |-> FALSE, queries |-> SubSeq(ConfigFields, 1, k)]
             ELSE LoadFrom(after, answers, k + 1, gen)

\* an accessor that never raises
AccessorRaisesNever(value) == FALSE

\* the accessor properties: if not self._<field>: raise ValueError
AccessorRaises(value) == value = <<>>

\* the loader after __init__
FreshLoader ==
    [fields |-> NoFields, loads |-> 0, succeeded |-> FALSE, last |-> <<>>, access |-> <<>>]

\* the loader after the call of load_all_configurations with these answers,
\* started from the fields before
LoaderAfterLoad(ldr, before, answers) ==
    LET result == LoadFrom(before, answers, 1, ldr.loads + 1)
    IN  [fields |-> result.fields,
         loads |-> ldr.loads + 1,
         succeeded |-> ldr.succeeded \/ result.ok,
         last |-> <<[ok |-> result.ok, queries |-> result.queries, before |-> before]>>,
         access |-> <<>>]

\* the loader of a run whose initialize succeeded
LoadedLoader == LoaderAfterLoad(FreshLoader, NoFields, [k \in 1..4 |-> "document"])

(***************************************************************************)
(* The approved-content poster (main.py)                                   *)
(***************************************************************************)

\* the chained .get(...)[0] of line 73 raises AttributeError on None and
\* IndexError on an empty list
ContentLookupRaises(item) == item.content # "text"

IdlePoster == [pc |-> "start", approved_content |-> <<>>, i |-> 0, events |-> <<>>, raised |-> <<>>]

(***************************************************************************)
(* SocialMediaScheduler (social_automation/scheduler.py) with the Notion   *)
(* status monitor and the Facebook poster                                  *)
(***************************************************************************)
Ready == "Ready for Scheduling"

SchedPageIds == {"n1", "n2"}

\* A Notion page as _parse_notion_page reads it.  copy is what the Copy
\* property holds ("ok", "empty", "too_long", or "bad_image_url" for a text
\* that is fine next to a Creative url that is not http(s)); time is the
\* Post Date against the clock: "none", "past", "future", or "naive" for a
\* date without time zone, which cannot be compared with an aware now.
NotionPage(copy, platform, time) ==
    [status |-> Ready, post_id |-> <<>>, copy |-> copy, platform |-> platform, time |-> time]

\* NotionStatusMonitor.validate_content
validate_content(page) == page.copy = "ok"

\* content.platform.lower() != "facebook"
IsFacebook(platform) == platform \in {"Facebook", "facebook"}

\* a status chosen without looking at the scheduled time
StatusAfterCreateAlwaysPosted(in_future) == "Posted"

\* schedule_post, lines 124-163: the status written after create_post succeeded
StatusAfterCreate(in_future) == IF in_future = "true" THEN "Scheduled" ELSE "Posted"

\* what the collaborators of one page answer in one handler run
SchedAnswers == [create : {"post_id", "no_post_id", "request_error"},
                 update : {"ok", "raises"},
                 status : {"data", "none"}]

\* One status write of the scheduler, kept for the record: from which status
\* to which, with which post id, by which handler, and what Facebook had
\* said about the post by then.
StatusWrite(from, to, post_id, by, time, published) ==
    [from |-> from, to |-> to, post_id |-> post_id, by |-> by, time |-> time,
     published |-> published]

\* update_status(page_id, new_status, facebook_post_id): the page after the
\* call; an exception of the Notion client is caught and nothing is written
update_status(page, new_status, facebook_post_id, answer) ==
    IF answer = "raises" THEN page
    ELSE [page EXCEPT !.status = new_status, !.post_id = <<facebook_post_id>>]

\* One page of the scheduler: the Notion page, the posts Facebook created
\* for it, the pending check_published job and the status writes so far.
SchedEntry(page) == [page |-> page, posts |-> <<>>, job |-> <<>>, writes |-> <<>>]

\* schedule_post(content) for one page of ready_items, after the checks of
\* process_ready_content (lines 87-94)
ProcessReadyItem(e, answer) ==
        \* content.scheduled_time and content.scheduled_time > now: True, False, or
        \* TypeError for a naive scheduled_time
    LET ScheduledInFuture(time) ==
            CASE time = "future" -> "true"
              [] time = "naive"  -> "raises"
              [] OTHER           -> "false"
    IN  LET page      == e.page
            in_future == ScheduledInFuture(page.time)
            post_id   == Len(e.posts) + 1
            updated   == update_status(page, StatusAfterCreate(in_future), post_id, answer.update)
        IN  IF page.status # Ready THEN e
            ELSE IF ~validate_content(page) THEN e
            ELSE IF ~IsFacebook(page.platform) THEN e
            ELSE IF in_future = "raises" THEN e
            ELSE IF answer.create # "post_id" THEN e
            ELSE [page   |-> updated,
                  posts  |-> Append(e.posts, [scheduled |-> in_future = "true",
                                              is_published |-> in_future # "true"]),
                  job    |-> IF in_future = "true" THEN <<post_id>> ELSE e.job,
                  writes |-> IF answer.update = "ok"
                             THEN Append(e.writes,
                                         StatusWrite(page.status, updated.status, post_id,
                                                     "schedule_post", page.time, in_future # "true"))
                             ELSE e.writes]

\* get_post_status(post_id): the post's data, or None on a request error
get_post_status(e, post_id, answer) ==
    IF answer = "none" \/ post_id \notin DOMAIN e.posts THEN <<>> ELSE <<e.posts[post_id]>>

\* the body shared by check_post_published and by one item of
\* check_scheduled_posts: Posted once Facebook reports the post as published
MarkPostedIfPublished(e, post_id, answer, by) ==
    LET post_data == get_post_status(e, post_id, answer.status)
        updated   == update_status(e.page, "Posted", post_id, answer.update)
    IN  IF ~(post_data # <<>> /\ post_data[1].is_published) THEN e
        ELSE [e EXCEPT !.page = updated,
                       !.writes = IF answer.update = "ok"
                                  THEN Append(e.writes,
                                              StatusWrite(e.page.status, "Posted", post_id, by,
                                                          e.page.time, TRUE))
                                  ELSE e.writes]

IdleSched == [entries |-> [p \in SchedPageIds |-> SchedEntry(NotionPage("ok", "Facebook", "none"))],
              cycles |-> 0, checks |-> 0]

(***************************************************************************)
(* ContentGenerator (suggest_content.py)                                   *)
(***************************************************************************)
\* an optional value: [] / None is the empty sequence
Nothing == <<>>

Some(x) == <<x>>

\* the equipment documents of the CMS, in the order a query returns them; name
\* and short_description are <<>> for a document without the key
Catalog ==
    <<[_id |-> "e1", popularity_score |-> 5, primary_use_cases |-> "list",
       name |-> <<"Excavator">>, short_description |-> <<"Compact excavator">>,
       primaryImage |-> <<"cdn/e1.jpg">>, images |-> <<>>],
      [_id |-> "e2", popularity_score |-> 9, primary_use_cases |-> "list",
       name |-> <<>>, short_description |-> <<>>,
       primaryImage |-> <<>>, images |-> <<"cdn/e2-a.jpg", "cdn/e2-b.jpg">>],
      [_id |-> "e3", popularity_score |-> 0, primary_use_cases |-> "null",
       name |-> <<"Heater">>, short_description |-> <<>>,
       primaryImage |-> <<"cdn/e3.jpg">>, images |-> <<>>],
      [_id |-> "e4", popularity_score |-> 5, primary_use_cases |-> "list",
       name |-> <<"">>, short_description |-> <<"">>,
       primaryImage |-> <<"">>, images |-> <<"cdn/e4.jpg">>],
      [_id |-> "e5", popularity_score |-> 3, primary_use_cases |-> "list",
       name |-> <<"Mixer">>, short_description |-> <<"Concrete mixer">>,
       primaryImage |-> <<"">>, images |-> <<>>]>>

\* _fetch_equipment_data: the documents whose _id is one of equipment_ids; []
\* when the query raises
_fetch_equipment_data(equipment_ids, query_raises) ==
    IF equipment_ids = <<>> THEN <<>>
    ELSE IF query_raises THEN <<>>
    ELSE Filter(Catalog, {d \in Range(Catalog) : d._id \in Range(equipment_ids)})

\* _build_content_context raises TypeError on equipment_uses.extend(None)
BuildContextRaises(equipment_data) ==
    \E i \in DOMAIN equipment_data : equipment_data[i].primary_use_cases = "null"

max_retries == 3

base_retry_delay == 2

\* a retry delay that is never doubled
BackoffConstant(retry_delay) == retry_delay

\* retry_delay *= 2
Backoff(retry_delay) == retry_delay * 2

\* every error taken for an overload
IsOverloadErrorAlways(error_msg) == TRUE

\* "503" in error_msg or "overloaded" in error_msg.lower()
IsOverloadError(error_msg) == error_msg.has503 \/ error_msg.hasOverloadedLower

\* the messages of the exceptions a text-generation attempt raises
Msg503 == [text |-> "503 Service Unavailable", has503 |-> TRUE, hasOverloadedLower |-> FALSE]

MsgTimeout == [text |-> "Read timed out", has503 |-> FALSE, hasOverloadedLower |-> FALSE]

\* generate_ideas_with_gemini, lines 85-96: the parsed array, or [] for
\* anything that raised inside its try
generate_ideas_with_gemini(response, ideas) ==
    IF response = "json_ideas" THEN ideas ELSE <<>>

\* content = ideas[0] with the strategic metadata added
WithStrategicMetadata(idea, plan) ==
    [has_title |-> idea.has_title, title |-> idea.title, body |-> idea.body,
     pillar |-> plan.pillar, target_platform |-> plan.target_platform]

SafePrefix == <<"S", "A", "F", "E", ":", " ">>

\* content_text.get('title', 'Equipment Rental')
TitleOf(content) == IF content.has_title THEN content.title ELSE <<"Equipment Rental">>

\* a safety step that marks the title and keeps the flagged body
ApplySafetyTitleOnly(content, is_safe, safe_alternative) ==
    IF ~is_safe
    THEN [content EXCEPT !.title = SafePrefix \o TitleOf(content), !.has_title = TRUE]
    ELSE content

\* lines 187-191: the body and title replaced when the draft is not safe
ApplySafety(content, is_safe, safe_alternative) ==
    IF ~is_safe
    THEN [content EXCEPT !.body = safe_alternative,
                         !.title = SafePrefix \o TitleOf(content),
                         !.has_title = TRUE]
    ELSE content

\* getattr(platform_config, platform.lower(), {})
lower(platform) ==
    CASE platform \in {"Facebook", "facebook"}   -> "facebook"
      [] platform \in {"Instagram", "instagram"} -> "instagram"
      [] platform \in {"Blog", "blog"}           -> "blog"

default_max_length == 2000

\* the truncation of _optimize_for_platform
TruncateBody(current_body, max_length) ==
    IF Len(current_body) > max_length
    THEN PySlicePrefix(current_body, max_length - 3) \o <<".", ".", ".">>
    ELSE current_body

\* equipment.get(key, default), the value kept as <<>> for a missing key
GetOr(value, default) == IF value = <<>> THEN default ELSE value[1]

\* an alt text that is the name alone
AltTextNameOnly(prefix, equipment) == <<GetOr(equipment.name, "")>>

\* f"Enhanced image of {equipment.get('name', 'equipment')}" and
\* f"Image of {equipment.get('name', 'equipment')}": the parts of the text
AltText(prefix, equipment) == <<prefix, GetOr(equipment.name, "equipment")>>

\* the entry of _enhance_image_with_gemini ("enhanced", with image_data) and
\* of _create_fallback_image_entry ("original", with url); a key the entry
\* does not have is the empty sequence
ImageEntry(type, equipment, url) ==
    [type |-> type, equipment_id |-> equipment._id,
     url |-> url,
     image_data |-> IF type = "enhanced" THEN <<"bytes", equipment._id>> ELSE <<>>,
     alt_text |-> AltText(IF type = "enhanced" THEN "Enhanced image of " ELSE "Image of ",
                          equipment),
     caption |-> <<GetOr(equipment.name, "Equipment"), " - ", GetOr(equipment.short_description, "Professional rental equipment")>>,
     platform_optimized |-> <<>>,
     target_dimensions |-> <<>>]

\* _get_equipment_image_url: the url of primaryImage, else the first of
\* images, else None
_get_equipment_image_url(equipment) ==
    IF equipment.primaryImage # <<>> /\ equipment.primaryImage[1] # ""
    THEN Some(equipment.primaryImage[1])
    ELSE IF equipment.images # <<>> /\ equipment.images[1] # ""
    THEN Some(equipment.images[1])
    ELSE Nothing

\* a fallback entry that does not say where the original photo is
CreateFallbackWithoutUrl(equipment, original_url) ==
    ImageEntry("original", equipment, Nothing)

\* _create_fallback_image_entry
_create_fallback_image_entry(equipment, original_url) ==
    ImageEntry("original", equipment, Some(original_url))

\* One iteration of the loop of enhance_equipment_images: the entries it
\* appends and the local original_image_url after it (a local of the
\* function, so it keeps its value from one iteration to the next).
ProcessItem(equipment, outcome, original_image_url) ==
    LET url == _get_equipment_image_url(equipment)
    IN  IF url = Nothing
        THEN [entries |-> <<>>, original_image_url |-> url]
        ELSE CASE outcome = "download_failed" -> [entries |-> <<>>, original_image_url |-> url]
               [] outcome = "enhanced" ->
                    [entries |-> <<ImageEntry("enhanced", equipment, Nothing)>>,
                     original_image_url |-> url]
               [] OTHER ->
                    [entries |-> <<_create_fallback_image_entry(equipment, url[1])>>,
                     original_image_url |-> url]

default_dimension == 1080

\* platform_specs.get('width', 1080) and platform_specs.get('height', 1080)
TargetDimensions(platform_entry) ==
    [width  |-> GetOr(platform_entry.width, default_dimension),
     height |-> GetOr(platform_entry.height, default_dimension)]

\* a tagging that keeps the pixels of an entry but loses where its original is
OptimizeImagesDropsUrl(images, platform_entry, platform) ==
    [i \in DOMAIN images |->
        [images[i] EXCEPT !.url = <<>>,
                          !.platform_optimized = Some(platform),
                          !.target_dimensions = Some(TargetDimensions(platform_entry))]]

\* EnhancedImageGenerator.optimize_for_platform: the input list when the
\* platform has no imageSpecs, else a copy of every entry with the keys
\* platform_optimized and target_dimensions set
optimize_images(images, platform_entry, platform) ==
    IF ~platform_entry.configured \/ ~platform_entry.hasImageSpecs
    THEN images
    ELSE [i \in DOMAIN images |->
            [images[i] EXCEPT !.platform_optimized = Some(platform),
                              !.target_dimensions = Some(TargetDimensions(platform_entry))]]

\* _optimize_for_platform: the optimized content
_optimize_for_platform(cfg, content_text, enhanced_images, platform) ==
        \* content_length_config.get('max', 2000)
    LET MaxLength(platform_entry) ==
            IF platform_entry.hasMax THEN platform_entry.max ELSE default_max_length
    IN  LET platform_entry == cfg.platform_config[lower(platform)]
            body == IF platform_entry.configured
                    THEN TruncateBody(content_text.body, MaxLength(platform_entry))
                    ELSE content_text.body
        IN  [has_title |-> content_text.has_title, title |-> content_text.title,
             body |-> body,
             pillar |-> content_text.pillar, target_platform |-> content_text.target_platform,
             platform_optimized |-> IF platform_entry.configured THEN platform ELSE "",
             optimized_images |-> IF enhanced_images # <<>>
                                  THEN optimize_images(enhanced_images, platform_entry, platform)
                                  ELSE <<>>]

\* a loop that ends at the first item that gives no enhanced entry
RECURSIVE EnhanceFromStopsAtFailure(_, _, _, _)
EnhanceFromStopsAtFailure(items, outcome, i, original_image_url) ==
    IF i > Len(items) THEN <<>>
    ELSE LET res == ProcessItem(items[i], outcome[i], original_image_url)
         IN  IF res.entries = <<>> \/ res.entries[1].type # "enhanced"
             THEN res.entries
             ELSE res.entries
                  \o EnhanceFromStopsAtFailure(items, outcome, i + 1, res.original_image_url)

\* enhance_equipment_images, lines 43-81: the loop from item i on; outcome[i]
\* is what happens to the i-th item
RECURSIVE EnhanceFrom(_, _, _, _)
EnhanceFrom(items, outcome, i, original_image_url) ==
    IF i > Len(items) THEN <<>>
    ELSE LET res == ProcessItem(items[i], outcome[i], original_image_url)
         IN  res.entries \o EnhanceFrom(items, outcome, i + 1, res.original_image_url)

enhance_equipment_images(equipment_data, max_images, outcome) ==
    EnhanceFrom(PySlicePrefix(equipment_data, max_images), outcome, 1, Nothing)

\* _assemble_final_content: the keys enhanced_images and image_count are set
\* only for a non-empty image list (has_images); without it the record
\* carries no image
_assemble_final_content(content, images, equipment_data, plan) ==
    [title |-> content.title, has_title |-> content.has_title,
     body |-> content.body,
     platform_optimized |-> content.platform_optimized,
     optimized_images |-> content.optimized_images,
     related_equipment |-> equipment_data,
     equipment_count |-> Len(equipment_data),
     has_images |-> images # <<>>,
     enhanced_images |-> images,
     image_count |-> Len(images),
     content_pillar |-> plan.pillar,
     target_platform |-> plan.target_platform,
     equipment_category |-> plan.equipment_category,
     priority_score |-> plan.priority_score]

\* an initialize that goes on whatever the load returned
InitializeSucceedsAlways(loaded) == TRUE

\* lines 76-78: if not load_all_configurations(): raise ValueError
InitializeSucceeds(loaded) == loaded

\* the empty-target check left out
NoEquipmentFoundNever(ids) == FALSE

\* line 141: if not equipment_target.specific_equipment_ids
NoEquipmentFound(ids) == ids = <<>>

\* an image step that is handed the first record only
ImagePipelineInputFirst(equipment_data) == PySlicePrefix(equipment_data, 1)

\* lines 170-172: enhance_equipment_images(equipment_data, ...), the whole list
ImagePipelineInput(equipment_data) == equipment_data

\* an image failure that fails the idea
ImageStageNextStrict(image_raised, text) ==
    IF image_raised \/ text = Nothing THEN "plan_done" ELSE "safety"

\* lines 167-181: where the idea goes after the image step
ImageStageNext(image_raised, text) ==
    IF text = Nothing THEN "plan_done" ELSE "safety"

PlanOutcomes == {"content", "no_equipment", "no_equipment_data", "text_failed", "error"}

\* a loop over the plans that an exception leaves
ContinuesAfterNoError(outcome) == outcome \in PlanOutcomes \ {"error"}

\* lines 116-127: the loop over the plans goes on after every outcome of a plan
ContinuesAfter(outcome) == outcome \in PlanOutcomes

SaveOutcomes == {"created", "unexpected_result", "exception"}

NotionOutcomes == {"page_created", "create_failed", "raised"}

\* a save loop that a failed record leaves
SaveLoopStopsOnFailure(outcome) == outcome \in {"page_created", "create_failed"}

\* lines 497-518: the save loop goes on after every outcome of a record
SaveLoopContinues(outcome) == outcome \in SaveOutcomes \cup NotionOutcomes

\* a Notion mirror that does not look at the document id
ShouldMirrorAlways(save_outcome) == TRUE

\* line 501: if sanity_doc_id
ShouldMirror(save_outcome) == save_outcome = "created"

(***************************************************************************)
(* Configurations                                                          *)
(***************************************************************************)
KV(key, value) == [k |-> key, v |-> value]

Rules(new, margin, under, maxEq) ==
    [prioritizeNewEquipment |-> new, prioritizeHighMargin |-> margin,
     prioritizeUnderutilized |-> under,
     hasMaxEquipmentPerPost |-> TRUE, maxEquipmentPerPost |-> maxEq]

WinterThemes ==
    <<[text |-> <<"Winter", "Solutions">>, mentions |-> {"winter"}],
      [text |-> <<"Snow", "Management">>, mentions |-> {}]>>

\* one platform document of PlatformConfig: {} when not configured, else its
\* contentLength.max (when present) and whether it carries imageSpecs
PlatformEntry(configured, hasMax, max, hasImageSpecs) ==
    [configured |-> configured, hasMax |-> hasMax, max |-> max, hasImageSpecs |-> hasImageSpecs,
     width |-> <<>>, height |-> <<>>]

EmptyPlatform == PlatformEntry(FALSE, FALSE, 0, FALSE)

StrategyConfig(weights, prefs, boost, priorities, themes, rules) ==
    [pillar_weights |-> weights, platform_preferences |-> prefs, boost10 |-> boost,
     current_season |-> "winter", seasonal_equipment_priority |-> priorities,
     seasonal_themes |-> themes, rules |-> rules, maxImagesPerPost |-> 3,
     platform_config |-> [facebook |-> EmptyPlatform, instagram |-> EmptyPlatform, blog |-> EmptyPlatform]]

\* the configuration the orchestrator runs with
OrchestratorConfig ==
    [StrategyConfig(<<KV("equipment_spotlight", 30), KV("seasonal_content", 25)>>,
                    <<KV("Facebook", 40), KV("Instagram", 35), KV("Blog", 25)>>, 10,
                    <<"heaters", "pumps">>, WinterThemes,
                    Rules(TRUE, FALSE, FALSE, 2))
     EXCEPT !.platform_config =
        [facebook  |-> PlatformEntry(TRUE, TRUE, 5, TRUE),
         instagram |-> EmptyPlatform,
         blog      |-> PlatformEntry(TRUE, FALSE, 0, FALSE)]]

\* what the collaborators answer with
Idea(has_title, title, body) == [has_title |-> has_title, title |-> title, body |-> body]

ShortBody == <<"a", "b">>

LongBody == <<"a", "b", "c", "d", "e", "f", "g">>

LongAlternative == <<"s", "t", "a", "y", "s", "a", "f", "e">>

Query(failed, result) == [failed |-> failed, result |-> result]

Safety(is_safe, safe_alternative) == [is_safe |-> is_safe, safe_alternative |-> safe_alternative]

\* the answers explored when one idea is followed in detail
DetailedInputs ==
    [ideas |-> {Idea(TRUE, <<"T", "i">>, ShortBody), Idea(TRUE, <<"T", "i">>, LongBody),
                Idea(FALSE, <<>>, ShortBody)},
     errors |-> {Msg503, [text |-> "The model is OVERLOADED", has503 |-> FALSE, hasOverloadedLower |-> TRUE], MsgTimeout},
     queries |-> {Query(TRUE, <<>>), Query(FALSE, <<>>), Query(FALSE, <<Catalog[1]>>),
                  Query(FALSE, <<Catalog[3]>>), Query(FALSE, <<Catalog[3], Catalog[1], Catalog[2]>>)},
     safety |-> {Safety(TRUE, <<>>), Safety(FALSE, <<"o", "k">>), Safety(FALSE, LongAlternative)},
     image_outcomes |-> {"download_failed", "prompt_raises", "enhance_none", "enhanced"},
     empty_responses |-> {"json_empty", "unparseable", "api_error"},
     counts |-> {0, MaxCount},
     num_ideas |-> {1}]

\* the answers explored when a whole batch is followed
BatchInputs ==
    [ideas |-> {Idea(TRUE, <<"T", "i">>, LongBody)},
     errors |-> {Msg503, MsgTimeout},
     queries |-> {Query(TRUE, <<>>), Query(FALSE, <<Catalog[3]>>),
                  Query(FALSE, <<Catalog[1], Catalog[2]>>)},
     safety |-> {Safety(TRUE, <<>>), Safety(FALSE, LongAlternative)},
     image_outcomes |-> {"enhanced"},
     empty_responses |-> {"unparseable"},
     counts |-> {0},
     num_ideas |-> 0..MaxIdeas]

(***************************************************************************)
(* State                                                                   *)
(***************************************************************************)
VARIABLES
    config,            \* the loaded configuration singletons
    loader,            \* the ConfigurationLoader: its fields and what was called on it
    poster,            \* main.main (the approved-content poster): its position and what it did
    sched,             \* the social media scheduler, its Notion pages and its Facebook posts
    pl_pc,             \* plan_strategic_content: "idle", "loop", "returned", "raised"
    pl_num_ideas,      \* plan_strategic_content: the requested count
    pl_plans,          \* plan_strategic_content: the list plans
    inputs,            \* the answers the collaborators may give in this run
    pc,                \* where suggest_content.main is
    exit,              \* how main ended
    num_ideas,         \* args.num_ideas
    content_plans,     \* generate_strategic_content: content_plans
    plan_i,            \* generate_strategic_content: the loop index i
    generated_content, \* generate_strategic_content: generated_content
    outcomes,          \* what each processed plan ended with
    equipment_ids,     \* _process_content_plan: equipment_target.specific_equipment_ids
    equipment_target,  \* _process_content_plan: equipment_target (Nothing before step 3a)
    equipment_data,    \* _process_content_plan: equipment_data
    content_text,      \* _process_content_plan: content_text (Nothing for None)
    enhanced_images,   \* _process_content_plan: enhanced_images
    optimized_content, \* _process_content_plan: optimized_content
    attempt,           \* _generate_content_text: attempt
    retry_delay,       \* _generate_content_text: retry_delay
    attempts_log,      \* what each text-generation attempt of this idea did
    sleeps,            \* the time.sleep delays of this idea, in order
    stages,            \* the pipeline stages this idea went through
    calls,             \* the arguments this idea's collaborators were called with
    save_i,            \* main: the index of the save loop
    save_calls,        \* how many times each record went to save_social_content_to_sanity
    sanity_docs,       \* the records the CMS holds a document for
    sanity_ids,        \* the records whose save returned a document id
    notion_calls,      \* the records add_idea_to_notion was called with
    notion_pages       \* the records Notion holds a page for

planVars == <<pl_pc, pl_num_ideas, pl_plans>>

ideaVars == <<equipment_ids, equipment_target, equipment_data, content_text, enhanced_images, optimized_content,
              attempt, retry_delay, attempts_log, sleeps, stages, calls>>

batchVars == <<num_ideas, content_plans, plan_i, generated_content, outcomes>>

persistVars == <<save_i, save_calls, sanity_docs, sanity_ids, notion_calls, notion_pages>>

orchVars == <<inputs, pc, exit, batchVars, ideaVars, persistVars>>

vars == <<config, loader, poster, sched, planVars, orchVars>>

NoCalls == [fetch |-> Nothing, enhance |-> Nothing, draft |-> Nothing, safety |-> Nothing,
            image_raised |-> FALSE, image_outcome |-> <<>>]

\* the per-idea variables at the start of _process_content_plan
IdeaStart ==
    /\ equipment_ids = <<>>
    /\ equipment_target = Nothing
    /\ equipment_data = <<>>
    /\ content_text = Nothing
    /\ enhanced_images = <<>>
    /\ optimized_content = Nothing
    /\ attempt = 0
    /\ retry_delay = base_retry_delay
    /\ attempts_log = <<>>
    /\ sleeps = <<>>
    /\ stages = <<>>
    /\ calls = NoCalls

PlanIdle == pl_pc = "idle" /\ pl_num_ideas = 0 /\ pl_plans = <<>>

OrchIdle ==
    /\ inputs = BatchInputs
    /\ pc = "idle"
    /\ exit = ""
    /\ num_ideas = 0
    /\ content_plans = <<>>
    /\ plan_i = 0
    /\ generated_content = <<>>
    /\ outcomes = <<>>
    /\ IdeaStart
    /\ save_i = 0
    /\ save_calls = <<>>
    /\ sanity_docs = {}
    /\ sanity_ids = {}
    /\ notion_calls = {}
    /\ notion_pages = {}

(***************************************************************************)
(* plan_strategic_content, one loop iteration per step                     *)
(***************************************************************************)
InitPlan ==
        \* the configuration documents the strategy engine is exercised with
    LET StrategyConfigs ==
            { StrategyConfig(<<KV("equipment_spotlight", 30), KV("seasonal_content", 25), KV("maintenance_tips", 0)>>,
                             <<KV("Facebook", 40), KV("Instagram", 35), KV("Blog", 25)>>, 20,
                             <<"snow-removal", "heaters", "pumps">>, WinterThemes,
                             Rules(TRUE, FALSE, TRUE, 3)),
              StrategyConfig(<<KV("safety_training", 15), KV("seasonal_content", 25), KV("customer_success", 60)>>,
                             <<KV("Facebook", 0), KV("Instagram", 0), KV("Blog", 0)>>, 10,
                             <<"landscaping", "construction">>, <<>>,
                             Rules(FALSE, TRUE, FALSE, 3)),
              StrategyConfig(<<KV("equipmentSpotlight", 30), KV("seasonalContent", 25), KV("projectShowcase", 20)>>,
                             <<KV("facebook", 40), KV("instagram", 35), KV("blog", 25)>>, 20,
                             <<"snow-removal", "heaters", "indoor-tools", "pumps", "generators">>, WinterThemes,
                             Rules(TRUE, FALSE, TRUE, 3)),
              StrategyConfig(<<KV("equipment_spotlight", 0), KV("seasonal_content", 0), KV("industry_focus", 0)>>,
                             <<KV("Facebook", 40), KV("Instagram", 35), KV("Blog", 25)>>, 15,
                             <<>>, WinterThemes,
                             Rules(FALSE, FALSE, FALSE, 3)),
              StrategyConfig(<<KV("seasonal_content", 0), KV("educational_content", 0)>>,
                             <<KV("Facebook", 40), KV("Instagram", 35), KV("Blog", 25)>>, 0,
                             <<>>, WinterThemes,
                             Rules(FALSE, FALSE, FALSE, 3)),
              StrategyConfig(<<>>, <<>>, 10, <<>>, <<>>, Rules(FALSE, FALSE, FALSE, 3)) }
    IN  /\ config \in StrategyConfigs
        /\ pl_num_ideas \in 0..MaxPlanIdeas
        /\ pl_pc = "loop"
        /\ pl_plans = <<>>
        /\ OrchIdle
        /\ loader = LoadedLoader
        /\ poster = IdlePoster
        /\ sched = IdleSched

\* for i in range(num_ideas): ... plans.append(plan)
PlanIteration ==
    /\ pl_pc = "loop"
    /\ Len(pl_plans) < pl_num_ideas
    /\ ~PillarZeroDivision(config)
    /\ \E r \in 0..MaxRoll, c \in {0, 1, MaxCount} :
          pl_plans' = Append(pl_plans, ContentPlan(config, r, c))
    /\ UNCHANGED <<config, loader, poster, sched, pl_pc, pl_num_ideas, orchVars>>

\* _select_strategic_pillar divides by zero: the exception leaves the function
PlanRaise ==
    /\ pl_pc = "loop"
    /\ Len(pl_plans) < pl_num_ideas
    /\ PillarZeroDivision(config)
    /\ pl_pc' = "raised"
    /\ UNCHANGED <<config, loader, poster, sched, pl_num_ideas, pl_plans, orchVars>>

\* plans.sort(...); return plans
PlanReturn ==
    /\ pl_pc = "loop"
    /\ Len(pl_plans) = pl_num_ideas
    /\ pl_plans' = SortPlans(pl_plans)
    /\ pl_pc' = "returned"
    /\ UNCHANGED <<config, loader, poster, sched, pl_num_ideas, orchVars>>

NextPlan == PlanIteration \/ PlanRaise \/ PlanReturn

SpecPlan == InitPlan /\ [][NextPlan]_vars

(***************************************************************************)
(* suggest_content.main                                                    *)
(***************************************************************************)
Init ==
    /\ config = OrchestratorConfig
    /\ PlanIdle
    /\ loader = FreshLoader
    /\ poster = IdlePoster
    /\ sched = IdleSched
    /\ inputs \in {BatchInputs, DetailedInputs}
    /\ pc = "main"
    /\ exit = ""
    /\ num_ideas \in inputs.num_ideas
    /\ content_plans = <<>>
    /\ plan_i = 0
    /\ generated_content = <<>>
    /\ outcomes = <<>>
    /\ IdeaStart
    /\ save_i = 0
    /\ save_calls = <<>>
    /\ sanity_docs = {}
    /\ sanity_ids = {}
    /\ notion_calls = {}
    /\ notion_pages = {}

ResetIdea ==
    /\ equipment_ids' = <<>>
    /\ equipment_target' = Nothing
    /\ equipment_data' = <<>>
    /\ content_text' = Nothing
    /\ enhanced_images' = <<>>
    /\ optimized_content' = Nothing
    /\ attempt' = 0
    /\ retry_delay' = base_retry_delay
    /\ attempts_log' = <<>>
    /\ sleeps' = <<>>
    /\ stages' = <<>>
    /\ calls' = NoCalls

\* _process_content_plan is left with this outcome
FinishIdea(outcome) ==
    /\ pc' = "plan_done"
    /\ outcomes' = Append(outcomes, outcome)

CurrentPlan == content_plans[plan_i]

\* main, lines 471-474: the required API keys
ValidateEnvironment ==
    /\ pc = "main"
    /\ \E keys_present \in BOOLEAN :
          IF keys_present
          THEN pc' = "initialize" /\ exit' = exit
          ELSE pc' = "done" /\ exit' = "missing_keys"
    /\ UNCHANGED <<config, loader, poster, sched, planVars, inputs, batchVars, ideaVars, persistVars>>

\* ContentGenerator.initialize: load_all_configurations or ValueError
Initialize ==
    /\ pc = "initialize"
    /\ \E answers \in [1..4 -> LoadAnswers] :
          /\ loader' = LoaderAfterLoad(loader, loader.fields, answers)
          /\ IF InitializeSucceeds(loader'.last[1].ok)
             THEN pc' = "planning" /\ exit' = exit
             ELSE pc' = "raised" /\ exit' = "config_error"
    /\ UNCHANGED <<config, poster, sched, planVars, inputs, batchVars, ideaVars, persistVars>>

\* generate_strategic_content, lines 96-106: the plans, the existing ideas
PlanContent ==
    /\ pc = "planning"
    /\ IF num_ideas > 0 /\ PillarZeroDivision(config)
       THEN /\ pc' = "raised"
            /\ exit' = "planning_error"
            /\ UNCHANGED <<content_plans, plan_i>>
       ELSE \E draws \in [1..num_ideas -> [r : 0..MaxOrchRoll, count : inputs.counts]] :
              /\ content_plans' = plan_strategic_content(config, draws)
              /\ IF num_ideas > 0
                 THEN pc' = "target" /\ plan_i' = 1 /\ exit' = exit
                 ELSE pc' = "done" /\ plan_i' = 0 /\ exit' = "no_content"
    /\ UNCHANGED <<config, loader, poster, sched, planVars, inputs, num_ideas, generated_content, outcomes,
                   ideaVars, persistVars>>

\* _process_content_plan, lines 137-146
TargetEquipment ==
    /\ pc = "target"
    /\ \E query \in inputs.queries :
          LET target == get_equipment_targets(config, CurrentPlan, query)
          IN  /\ equipment_target' = Some(target)
              /\ equipment_ids' = target.specific_equipment_ids
              /\ IF NoEquipmentFound(target.specific_equipment_ids)
                 THEN FinishIdea("no_equipment")
                 ELSE pc' = "fetch" /\ outcomes' = outcomes
    /\ stages' = Append(stages, "TARGET_EQUIPMENT")
    /\ UNCHANGED <<config, loader, poster, sched, planVars, inputs, exit, num_ideas, content_plans, plan_i,
                   generated_content, equipment_data, content_text, enhanced_images,
                   optimized_content, attempt, retry_delay, attempts_log, sleeps, calls,
                   persistVars>>

\* _process_content_plan, lines 148-154
FetchEquipmentData ==
    /\ pc = "fetch"
    /\ \E query_raises \in BOOLEAN :
          LET data == _fetch_equipment_data(equipment_ids, query_raises)
          IN  /\ equipment_data' = data
              /\ IF data = <<>>
                 THEN FinishIdea("no_equipment_data")
                 ELSE pc' = "context" /\ outcomes' = outcomes
    /\ stages' = Append(stages, "FETCH_EQUIPMENT_DATA")
    /\ calls' = [calls EXCEPT !.fetch = Some(equipment_ids)]
    /\ UNCHANGED <<config, loader, poster, sched, planVars, inputs, exit, num_ideas, content_plans, plan_i,
                   generated_content, equipment_ids, equipment_target, content_text, enhanced_images,
                   optimized_content, attempt, retry_delay, attempts_log, sleeps,
                   persistVars>>

\* _process_content_plan, lines 156-158; an exception goes to the handler of
\* generate_strategic_content, lines 125-127
BuildContentContext ==
    /\ pc = "context"
    /\ IF BuildContextRaises(equipment_data)
       THEN FinishIdea("error")
       ELSE pc' = "text" /\ outcomes' = outcomes
    /\ stages' = Append(stages, "BUILD_CONTEXT")
    /\ UNCHANGED <<config, loader, poster, sched, planVars, inputs, exit, num_ideas, content_plans, plan_i,
                   generated_content, equipment_ids, equipment_target, equipment_data, content_text,
                   enhanced_images, optimized_content, attempt, retry_delay, attempts_log,
                   sleeps, calls, persistVars>>

\* the text step hands over to the check of the text, leaving out the image step
StageAfterTextSkipsImages(text) == IF text = Nothing THEN "images" ELSE "safety"

\* _process_content_plan, lines 165-169: whatever _generate_content_text
\* returned, the image step is next
StageAfterText(text) == "images"

NoError == [text |-> "", has503 |-> FALSE, hasOverloadedLower |-> FALSE]

\* an attempt that raised nothing, with what the helper had received
Swallowed(response) == [NoError EXCEPT !.text = response]

\* a wait after an attempt that gave no idea
DelayAfterEmptyBacksOff(delay) == <<delay>>

\* _generate_content_text, line 319: after the warning the for loop goes on
\* at once; no time.sleep on this path
DelayAfterEmpty(delay) == <<>>

Attempt(result, error) == [result |-> result, error |-> error]

TextStage == IF attempts_log = <<>> THEN Append(stages, "GENERATE_TEXT") ELSE stages

\* _generate_content_text, lines 276-317: an attempt that yields ideas
TextAttemptSucceeds ==
    /\ pc = "text"
    /\ attempt < max_retries
    /\ \E idea \in inputs.ideas :
          LET ideas == generate_ideas_with_gemini("json_ideas", <<idea>>)
          IN  /\ ideas # <<>>
              /\ content_text' = Some(WithStrategicMetadata(ideas[1], CurrentPlan))
              /\ calls' = [calls EXCEPT !.draft = Some(ideas[1])]
    /\ attempts_log' = Append(attempts_log, Attempt("ideas", NoError))
    /\ stages' = TextStage
    /\ pc' = StageAfterText(content_text')
    /\ UNCHANGED <<config, loader, poster, sched, planVars, inputs, exit, batchVars, equipment_ids, equipment_target, equipment_data,
                   enhanced_images, optimized_content, attempt, retry_delay, sleeps,
                   persistVars>>

\* _generate_content_text, lines 306-319: an attempt that yields no idea; the
\* for loop goes to the next attempt, or ends and None is returned
TextAttemptEmpty ==
    /\ pc = "text"
    /\ attempt < max_retries
    /\ \E response \in inputs.empty_responses :
          /\ generate_ideas_with_gemini(response, <<>>) = <<>>
          /\ attempts_log' = Append(attempts_log, Attempt("empty", Swallowed(response)))
    /\ sleeps' = sleeps \o DelayAfterEmpty(retry_delay)
    /\ stages' = TextStage
    /\ attempt' = attempt + 1
    /\ pc' = IF attempt + 1 < max_retries THEN "text" ELSE StageAfterText(content_text)
    /\ UNCHANGED <<config, loader, poster, sched, planVars, inputs, exit, batchVars, equipment_ids, equipment_target, equipment_data,
                   content_text, enhanced_images, optimized_content, retry_delay,
                   calls, persistVars>>

\* _generate_content_text, lines 321-337: an attempt that raises
TextAttemptRaises ==
    /\ pc = "text"
    /\ attempt < max_retries
    /\ \E error_msg \in inputs.errors :
          /\ attempts_log' = Append(attempts_log, Attempt("raised", error_msg))
          /\ IF IsOverloadError(error_msg)
             THEN IF attempt < max_retries - 1
                  THEN /\ sleeps' = Append(sleeps, retry_delay)
                       /\ retry_delay' = Backoff(retry_delay)
                       /\ attempt' = attempt + 1
                       /\ pc' = "text"
                  ELSE /\ attempt' = attempt + 1
                       /\ pc' = StageAfterText(content_text)
                       /\ UNCHANGED <<sleeps, retry_delay>>
             ELSE /\ pc' = StageAfterText(content_text)
                  /\ UNCHANGED <<sleeps, retry_delay, attempt>>
    /\ stages' = TextStage
    /\ UNCHANGED <<config, loader, poster, sched, planVars, inputs, exit, batchVars, equipment_ids, equipment_target, equipment_data,
                   content_text, enhanced_images, optimized_content, calls, persistVars>>

\* _process_content_plan, lines 167-181: the image step and the check of
\* content_text that follows it
GenerateImages ==
    /\ pc = "images"
    /\ \E raised \in BOOLEAN :
        \E outcome \in [1..Len(PySlicePrefix(equipment_data, config.maxImagesPerPost))
                        -> inputs.image_outcomes] :
          /\ enhanced_images' =
                IF raised THEN <<>>
                ELSE enhance_equipment_images(ImagePipelineInput(equipment_data),
                                              config.maxImagesPerPost, outcome)
          /\ calls' = [calls EXCEPT !.enhance = Some(ImagePipelineInput(equipment_data)),
                                    !.image_raised = raised,
                                    !.image_outcome = outcome]
          /\ IF ImageStageNext(raised, content_text) = "safety"
             THEN pc' = "safety" /\ outcomes' = outcomes
             ELSE FinishIdea(IF content_text = Nothing THEN "text_failed" ELSE "error")
    /\ stages' = Append(stages, "GENERATE_IMAGES")
    /\ UNCHANGED <<config, loader, poster, sched, planVars, inputs, exit, num_ideas, content_plans, plan_i,
                   generated_content, equipment_ids, equipment_target, equipment_data, content_text,
                   optimized_content, attempt, retry_delay, attempts_log, sleeps,
                   persistVars>>

\* _process_content_plan, lines 183-191
SafetyCheck ==
    /\ pc = "safety"
    /\ \E verdict \in inputs.safety :
          /\ content_text' = Some(ApplySafety(content_text[1], verdict.is_safe,
                                              verdict.safe_alternative))
          /\ calls' = [calls EXCEPT !.safety = Some(verdict)]
    /\ stages' = Append(stages, "SAFETY_CHECK")
    /\ pc' = "optimize"
    /\ UNCHANGED <<config, loader, poster, sched, planVars, inputs, exit, batchVars, equipment_ids, equipment_target, equipment_data,
                   enhanced_images, optimized_content, attempt, retry_delay, attempts_log,
                   sleeps, persistVars>>

\* _process_content_plan, lines 193-197
PlatformOptimize ==
    /\ pc = "optimize"
    /\ optimized_content' = Some(_optimize_for_platform(config, content_text[1], enhanced_images,
                                                        CurrentPlan.target_platform))
    /\ stages' = Append(stages, "PLATFORM_OPTIMIZE")
    /\ pc' = "assemble"
    /\ UNCHANGED <<config, loader, poster, sched, planVars, inputs, exit, batchVars, equipment_ids, equipment_target, equipment_data,
                   content_text, enhanced_images, attempt, retry_delay, attempts_log, sleeps,
                   calls, persistVars>>

\* _process_content_plan, lines 199-205, and generate_strategic_content,
\* lines 119-121
AssembleFinalContent ==
    /\ pc = "assemble"
    /\ generated_content' =
          Append(generated_content,
                 [plan |-> plan_i,
                  content |-> _assemble_final_content(optimized_content[1], enhanced_images,
                                                      equipment_data, CurrentPlan)])
    /\ stages' = Append(stages, "ASSEMBLE")
    /\ FinishIdea("content")
    /\ UNCHANGED <<config, loader, poster, sched, planVars, inputs, exit, num_ideas, content_plans, plan_i,
                   equipment_ids, equipment_target, equipment_data, content_text, enhanced_images,
                   optimized_content, attempt, retry_delay, attempts_log, sleeps, calls,
                   persistVars>>

\* generate_strategic_content, lines 108-132: the next plan, or the return to
\* main, lines 490-497
NextContentPlan ==
    /\ pc = "plan_done"
    /\ IF ~ContinuesAfter(outcomes[Len(outcomes)])
       THEN /\ pc' = "raised"
            /\ exit' = "processing_error"
            /\ UNCHANGED <<plan_i, save_i, save_calls>>
       ELSE IF plan_i < Len(content_plans)
       THEN /\ pc' = "target"
            /\ plan_i' = plan_i + 1
            /\ UNCHANGED <<exit, save_i, save_calls>>
       ELSE IF generated_content = <<>>
       THEN /\ pc' = "done"
            /\ exit' = "no_content"
            /\ UNCHANGED <<plan_i, save_i, save_calls>>
       ELSE /\ pc' = "save"
            /\ save_i' = 1
            /\ save_calls' = [k \in DOMAIN generated_content |-> 0]
            /\ UNCHANGED <<plan_i, exit>>
    /\ ResetIdea
    /\ UNCHANGED <<config, loader, poster, sched, planVars, inputs, num_ideas, content_plans, generated_content,
                   outcomes, sanity_docs, sanity_ids, notion_calls, notion_pages>>

\* main, lines 497-518: where the save loop goes after a record
AfterRecord(outcome) ==
    IF ~SaveLoopContinues(outcome)
    THEN pc' = "raised" /\ exit' = "save_error" /\ save_i' = save_i
    ELSE IF save_i < Len(generated_content)
    THEN pc' = "save" /\ exit' = exit /\ save_i' = save_i + 1
    ELSE pc' = "done" /\ exit' = "completed" /\ save_i' = save_i

\* main, lines 499-503 and 514-518: save_social_content_to_sanity
SaveToSanity ==
    /\ pc = "save"
    /\ save_calls' = [save_calls EXCEPT ![save_i] = @ + 1]
    /\ \E outcome \in SaveOutcomes :
          /\ sanity_docs' = IF outcome \in {"created", "unexpected_result"}
                            THEN sanity_docs \cup {save_i} ELSE sanity_docs
          /\ sanity_ids' = IF outcome = "created" THEN sanity_ids \cup {save_i} ELSE sanity_ids
          /\ IF ShouldMirror(outcome)
             THEN pc' = "notion" /\ UNCHANGED <<exit, save_i>>
             ELSE AfterRecord(outcome)
    /\ UNCHANGED <<config, loader, poster, sched, planVars, inputs, batchVars, ideaVars, notion_calls, notion_pages>>

\* main, lines 505-512: add_idea_to_notion
AddToNotion ==
    /\ pc = "notion"
    /\ notion_calls' = notion_calls \cup {save_i}
    /\ \E outcome \in NotionOutcomes :
          /\ notion_pages' = IF outcome = "page_created"
                             THEN notion_pages \cup {save_i} ELSE notion_pages
          /\ AfterRecord(outcome)
    /\ UNCHANGED <<config, loader, poster, sched, planVars, inputs, batchVars, ideaVars, save_calls, sanity_docs,
                   sanity_ids>>

Next ==
    \/ ValidateEnvironment
    \/ Initialize
    \/ PlanContent
    \/ TargetEquipment
    \/ FetchEquipmentData
    \/ BuildContentContext
    \/ TextAttemptSucceeds
    \/ TextAttemptEmpty
    \/ TextAttemptRaises
    \/ GenerateImages
    \/ SafetyCheck
    \/ PlatformOptimize
    \/ AssembleFinalContent
    \/ NextContentPlan
    \/ SaveToSanity
    \/ AddToNotion

Spec == Init /\ [][Next]_vars

(***************************************************************************)
(* _optimize_for_platform on its own: any body, any platform document      *)
(***************************************************************************)

InitOptimize ==
    LET PlatformEntries ==
            {EmptyPlatform, PlatformEntry(TRUE, FALSE, 0, TRUE),
             [PlatformEntry(TRUE, FALSE, 0, TRUE) EXCEPT !.hasImageSpecs = TRUE, !.width = <<1200>>, !.height = <<630>>],
             [PlatformEntry(TRUE, TRUE, MaxLimit, TRUE) EXCEPT !.hasImageSpecs = TRUE, !.width = <<1200>>, !.height = <<>>]}
            \cup {PlatformEntry(TRUE, TRUE, max, FALSE) : max \in 0..MaxLimit}
    IN  /\ \E entry \in PlatformEntries :
              config = [OrchestratorConfig EXCEPT !.platform_config =
                           [facebook |-> entry, instagram |-> entry, blog |-> entry]]
        /\ PlanIdle
        /\ loader = LoadedLoader
        /\ poster = IdlePoster
        /\ sched = IdleSched
        /\ inputs = DetailedInputs
        /\ pc = "optimize"
        /\ exit = ""
        /\ num_ideas = 1
        /\ \E r \in 0..MaxRoll : content_plans = plan_strategic_content(OrchestratorConfig, <<[r |-> r, count |-> 0]>>)
        /\ plan_i = 1
        /\ generated_content = <<>>
        /\ outcomes = <<>>
        /\ equipment_target = Some(get_equipment_targets(OrchestratorConfig, content_plans[1],
                                                         Query(FALSE, <<Catalog[1], Catalog[2]>>)))
        /\ equipment_ids = equipment_target[1].specific_equipment_ids
        /\ equipment_data = _fetch_equipment_data(equipment_ids, FALSE)
        /\ \E n \in 0..MaxBodyLen :
              content_text = Some(WithStrategicMetadata(Idea(TRUE, <<"T", "i">>, [i \in 1..n |-> <<"a", "b", "c", "d", "e", "f", "g", "h", "i", "j", "k", "l", "m">>[((i - 1) % 13) + 1]]),
                                                        content_plans[1]))
        /\ \E outcome \in {<<"download_failed", "download_failed">>, <<"enhanced", "download_failed">>,
                            <<"enhance_none", "enhanced">>} :
              /\ enhanced_images = enhance_equipment_images(equipment_data, config.maxImagesPerPost,
                                                            outcome)
              /\ calls = [NoCalls EXCEPT !.fetch = Some(equipment_ids),
                                         !.enhance = Some(equipment_data),
                                         !.image_outcome = outcome,
                                         !.safety = Some(Safety(TRUE, <<>>))]
        /\ optimized_content = Nothing
        /\ attempt = 0
        /\ retry_delay = base_retry_delay
        /\ attempts_log = <<Attempt("ideas", NoError)>>
        /\ sleeps = <<>>
        /\ stages = <<"TARGET_EQUIPMENT", "FETCH_EQUIPMENT_DATA", "BUILD_CONTEXT", "GENERATE_TEXT",
                      "GENERATE_IMAGES", "SAFETY_CHECK">>
        /\ save_i = 0
        /\ save_calls = <<>>
        /\ sanity_docs = {}
        /\ sanity_ids = {}
        /\ notion_calls = {}
        /\ notion_pages = {}

NextOptimize == PlatformOptimize

SpecOptimize == InitOptimize /\ [][NextOptimize]_vars

(***************************************************************************)
(* ConfigurationLoader: loads, refreshes and accessor calls on one loader  *)
(***************************************************************************)
InitLoader ==
    /\ config = OrchestratorConfig
    /\ loader = FreshLoader
    /\ poster = IdlePoster
    /\ sched = IdleSched
    /\ PlanIdle
    /\ OrchIdle

\* load_all_configurations
LoadAllConfigurations ==
    /\ loader.loads < MaxLoads
    /\ \E answers \in [1..4 -> LoadAnswers] :
          loader' = LoaderAfterLoad(loader, loader.fields, answers)
    /\ UNCHANGED <<config, poster, sched, planVars, orchVars>>

\* refresh_configurations: the four fields reset, then load_all_configurations
RefreshConfigurations ==
    /\ loader.loads < MaxLoads
    /\ \E answers \in [1..4 -> LoadAnswers] :
          loader' = LoaderAfterLoad(loader, NoFields, answers)
    /\ UNCHANGED <<config, poster, sched, planVars, orchVars>>

\* one of the accessor properties is read
AccessConfiguration ==
    /\ \E f \in Range(ConfigFields) :
          loader' = [loader EXCEPT !.access =
                        <<[field |-> f,
                           raised |-> AccessorRaises(loader.fields[f]),
                           value |-> IF AccessorRaises(loader.fields[f])
                                     THEN <<>> ELSE loader.fields[f]]>>]
    /\ UNCHANGED <<config, poster, sched, planVars, orchVars>>

NextLoader == LoadAllConfigurations \/ RefreshConfigurations \/ AccessConfiguration

SpecLoader == InitLoader /\ [][NextLoader]_vars

(***************************************************************************)
(* get_equipment_targets on any catalog answer and any selection rules     *)
(***************************************************************************)
\* the lists of distinct catalog documents, in any order
CatalogLists ==
    {q \in UNION {[1..n -> Range(Catalog)] : n \in 0..Len(Catalog)} :
        \A i, j \in DOMAIN q : i # j => q[i] # q[j]}

InitTarget ==
    LET TargetRules ==
            {Rules(new, FALSE, under, maxEq) : new \in BOOLEAN, under \in BOOLEAN, maxEq \in 0..MaxEquipment}
            \cup {[Rules(new, FALSE, under, 0) EXCEPT !.hasMaxEquipmentPerPost = FALSE] : new \in BOOLEAN, under \in BOOLEAN}
    IN  /\ \E rules \in TargetRules : config = [OrchestratorConfig EXCEPT !.rules = rules]
        /\ PlanIdle
        /\ loader = LoadedLoader
        /\ poster = IdlePoster
        /\ sched = IdleSched
        /\ \E query \in ({Query(TRUE, <<>>)} \cup {Query(FALSE, q) : q \in CatalogLists}) : inputs = [DetailedInputs EXCEPT !.queries = {query}]
        /\ pc = "target"
        /\ exit = ""
        /\ num_ideas = 1
        /\ \E r \in 0..MaxOrchRoll :
              content_plans = plan_strategic_content(config, <<[r |-> r, count |-> 0]>>)
        /\ plan_i = 1
        /\ generated_content = <<>>
        /\ outcomes = <<>>
        /\ IdeaStart
        /\ save_i = 0
        /\ save_calls = <<>>
        /\ sanity_docs = {}
        /\ sanity_ids = {}
        /\ notion_calls = {}
        /\ notion_pages = {}

NextTarget == TargetEquipment

SpecTarget == InitTarget /\ [][NextTarget]_vars

(***************************************************************************)
(* enhance_equipment_images on any equipment list and any maxImagesPerPost *)
(***************************************************************************)

InitImages ==
    /\ \E m \in 0..MaxImages : config = [OrchestratorConfig EXCEPT !.maxImagesPerPost = m]
    /\ PlanIdle
    /\ loader = LoadedLoader
    /\ poster = IdlePoster
    /\ sched = IdleSched
    /\ inputs = DetailedInputs
    /\ pc = "images"
    /\ exit = ""
    /\ num_ideas = 1
    /\ content_plans = plan_strategic_content(config, <<[r |-> 0, count |-> 0]>>)
    /\ plan_i = 1
    /\ generated_content = <<>>
    /\ outcomes = <<>>
    /\ equipment_data \in {q \in CatalogLists : q # <<>> /\ ~BuildContextRaises(q)}
    /\ equipment_ids = [i \in DOMAIN equipment_data |-> equipment_data[i]._id]
    /\ equipment_target = Some([category |-> content_plans[1].equipment_category,
                                specific_equipment_ids |-> equipment_ids,
                                priority_reasons |-> <<"Recently added equipment",
                                                       "Seasonal relevance">>])
    /\ content_text \in {Nothing,
                         Some(WithStrategicMetadata(Idea(TRUE, <<"T", "i">>, ShortBody),
                                                    content_plans[1]))}
    /\ enhanced_images = <<>>
    /\ optimized_content = Nothing
    /\ attempt = 0
    /\ retry_delay = base_retry_delay
    /\ attempts_log = <<IF content_text = Nothing THEN Attempt("empty", Swallowed("json_empty"))
                        ELSE Attempt("ideas", NoError)>>
    /\ sleeps = <<>>
    /\ stages = <<"TARGET_EQUIPMENT", "FETCH_EQUIPMENT_DATA", "BUILD_CONTEXT", "GENERATE_TEXT">>
    /\ calls = [NoCalls EXCEPT !.fetch = Some(equipment_ids)]
    /\ save_i = 0
    /\ save_calls = <<>>
    /\ sanity_docs = {}
    /\ sanity_ids = {}
    /\ notion_calls = {}
    /\ notion_pages = {}

NextImages == GenerateImages

SpecImages == InitImages /\ [][NextImages]_vars

(***************************************************************************)
(* main.main: the approved-content poster                                  *)
(***************************************************************************)
InitPoster ==
    /\ config = OrchestratorConfig
    /\ loader = LoadedLoader
    /\ poster = IdlePoster
    /\ sched = IdleSched
    /\ PlanIdle
    /\ OrchIdle

\* approved_content = get_approved_content()
GetApprovedContent ==
        \* the lists databases.query may answer with
    LET ApprovedLists ==
            UNION {{[i \in 1..n |-> [id |-> <<"page1", "page2", "page3", "page4">>[i], content |-> kinds[i]]] : kinds \in [1..n -> {"text", "missing", "empty"}]}
                   : n \in 0..MaxPages}
    IN  /\ poster.pc = "start"
        /\ \/ \E items \in ApprovedLists :
                 poster' = [poster EXCEPT !.pc = "loop", !.approved_content = items]
           \/ poster' = [poster EXCEPT !.pc = "raised",
                                       !.raised = <<[at |-> "get_approved_content", page |-> ""]>>]
        /\ UNCHANGED <<config, loader, sched, planVars, orchVars>>

\* for item in approved_content: content = ...; post_to_social_media(content);
\* update_notion_status(page_id)
PosterIteration ==
        \* One iteration of the loop of main: what it appends to the event log and
        \* the exception that leaves it, if any.  Nothing in main catches.
    LET PosterIterationResult(item, post_outcome, update_outcome) ==
            IF ContentLookupRaises(item)
            THEN [events |-> <<>>, raised |-> <<[at |-> "content", page |-> item.id]>>]
            ELSE IF post_outcome = "raises"
            THEN [events |-> <<[call |-> "post_to_social_media", page |-> item.id, completed |-> FALSE]>>,
                  raised |-> <<[at |-> "post_to_social_media", page |-> item.id]>>]
            ELSE IF update_outcome = "raises"
            THEN [events |-> <<[call |-> "post_to_social_media", page |-> item.id, completed |-> TRUE],
                               [call |-> "update_notion_status", page |-> item.id, completed |-> FALSE]>>,
                  raised |-> <<[at |-> "update_notion_status", page |-> item.id]>>]
            ELSE [events |-> <<[call |-> "post_to_social_media", page |-> item.id, completed |-> TRUE],
                               [call |-> "update_notion_status", page |-> item.id, completed |-> TRUE]>>,
                  raised |-> <<>>]
    IN  /\ poster.pc = "loop"
        /\ poster.i < Len(poster.approved_content)
        /\ \E post_outcome \in {"ok", "raises"}, update_outcome \in {"ok", "raises"} :
              LET item == poster.approved_content[poster.i + 1]
                  res  == PosterIterationResult(item, post_outcome, update_outcome)
              IN  poster' = [poster EXCEPT !.i = poster.i + 1,
                                           !.events = poster.events \o res.events,
                                           !.raised = res.raised,
                                           !.pc = IF res.raised # <<>> THEN "raised" ELSE "loop"]
        /\ UNCHANGED <<config, loader, sched, planVars, orchVars>>

\* the loop is exhausted: main returns
PosterReturn ==
    /\ poster.pc = "loop"
    /\ poster.i = Len(poster.approved_content)
    /\ poster' = [poster EXCEPT !.pc = "returned"]
    /\ UNCHANGED <<config, loader, sched, planVars, orchVars>>

NextPoster == GetApprovedContent \/ PosterIteration \/ PosterReturn

SpecPoster == InitPoster /\ [][NextPoster]_vars

(***************************************************************************)
(* The scheduler's jobs over any number of cycles, with the clock and       *)
(* Facebook's own publishing of scheduled posts as the environment         *)
(***************************************************************************)
InitScheduler ==
        \* the pages a database may hold when the scheduler starts
    LET PageKinds ==
            {NotionPage("ok", "Facebook", "future"), NotionPage("ok", "facebook", "none"),
             NotionPage("ok", "Facebook", "past"), NotionPage("ok", "Facebook", "naive"),
             NotionPage("empty", "Facebook", "none"), NotionPage("too_long", "Facebook", "future"),
             NotionPage("bad_image_url", "Facebook", "past"), NotionPage("ok", "Instagram", "future")}
    IN  /\ config = OrchestratorConfig
        /\ loader = LoadedLoader
        /\ poster = IdlePoster
        /\ \E pages \in [SchedPageIds -> PageKinds] :
              sched = [entries |-> [p \in SchedPageIds |-> SchedEntry(pages[p])],
                       cycles |-> 0, checks |-> 0]
        /\ PlanIdle
        /\ OrchIdle

\* process_ready_content: every page get_ready_for_scheduling returned goes
\* through the checks and schedule_post; a failed query gives no page
ProcessReadyContent ==
    /\ sched.cycles < MaxCycles
    /\ \/ \E answers \in [SchedPageIds -> SchedAnswers] :
             sched' = [sched EXCEPT
                          !.entries = [p \in SchedPageIds |->
                                          ProcessReadyItem(sched.entries[p], answers[p])],
                          !.cycles = sched.cycles + 1]
       \/ sched' = [sched EXCEPT !.cycles = sched.cycles + 1]
    /\ UNCHANGED <<config, loader, poster, planVars, orchVars>>

\* check_post_published, run by the job schedule_post added for the page
CheckPostPublished ==
        \* check_post_published(page_id, post_id): the date-triggered job runs once
        \* and is added again only while the post is still unpublished
    LET CheckPublishedJob(e, answer) ==
            LET post_id   == e.job[1]
                post_data == get_post_status(e, post_id, answer.status)
                after     == MarkPostedIfPublished(e, post_id, answer, "check_post_published")
            IN  [after EXCEPT !.job = IF post_data # <<>> /\ ~post_data[1].is_published
                                      THEN e.job ELSE <<>>]
    IN  /\ sched.checks < MaxChecks
        /\ \E p \in SchedPageIds, answer \in SchedAnswers :
              /\ sched.entries[p].job # <<>>
              /\ sched' = [sched EXCEPT !.entries[p] = CheckPublishedJob(sched.entries[p], answer),
                                        !.checks = sched.checks + 1]
        /\ UNCHANGED <<config, loader, poster, planVars, orchVars>>

\* check_scheduled_posts: every page get_scheduled_content returned
CheckScheduledPosts ==
        \* one item of check_scheduled_posts: the Post ID read back from the page
    LET CheckScheduledItem(e, answer) ==
            IF e.page.status # "Scheduled" \/ e.page.post_id = <<>> THEN e
            ELSE MarkPostedIfPublished(e, e.page.post_id[1], answer, "check_scheduled_posts")
    IN  /\ sched.checks < MaxChecks
        /\ \E answers \in [SchedPageIds -> SchedAnswers] :
              sched' = [sched EXCEPT
                           !.entries = [p \in SchedPageIds |->
                                           CheckScheduledItem(sched.entries[p], answers[p])],
                           !.checks = sched.checks + 1]
        /\ UNCHANGED <<config, loader, poster, planVars, orchVars>>

\* the clock reaches the Post Date of a page
PostDateArrives ==
    /\ \E p \in SchedPageIds :
          /\ sched.entries[p].page.time = "future"
          /\ sched' = [sched EXCEPT !.entries[p].page.time = "past"]
    /\ UNCHANGED <<config, loader, poster, planVars, orchVars>>

\* Facebook publishes a scheduled post whose time has come
FacebookPublishes ==
    /\ \E p \in SchedPageIds :
          \E k \in DOMAIN sched.entries[p].posts :
              /\ sched.entries[p].page.time = "past"
              /\ ~sched.entries[p].posts[k].is_published
              /\ sched' = [sched EXCEPT !.entries[p].posts[k].is_published = TRUE]
    /\ UNCHANGED <<config, loader, poster, planVars, orchVars>>

NextScheduler ==
    \/ ProcessReadyContent
    \/ CheckPostPublished
    \/ CheckScheduledPosts
    \/ PostDateArrives
    \/ FacebookPublishes

SpecScheduler == InitScheduler /\ [][NextScheduler]_vars

(***************************************************************************)
(* _generate_content_text on its own: any sequence of attempts.  The loop   *)
(* runs on one thread and every attempt returns or raises, so an enabled   *)
(* attempt is eventually made.                                             *)
(***************************************************************************)
InitText ==
    /\ config = OrchestratorConfig
    /\ PlanIdle
    /\ loader = LoadedLoader
    /\ poster = IdlePoster
    /\ sched = IdleSched
    /\ inputs = DetailedInputs
    /\ pc = "text"
    /\ exit = ""
    /\ num_ideas = 1
    /\ \E r \in 0..MaxOrchRoll :
          content_plans = plan_strategic_content(config, <<[r |-> r, count |-> 0]>>)
    /\ plan_i = 1
    /\ generated_content = <<>>
    /\ outcomes = <<>>
    /\ equipment_target = Some(get_equipment_targets(config, content_plans[1],
                                                     Query(FALSE, <<Catalog[1], Catalog[2]>>)))
    /\ equipment_ids = equipment_target[1].specific_equipment_ids
    /\ equipment_data = _fetch_equipment_data(equipment_ids, FALSE)
    /\ content_text = Nothing
    /\ enhanced_images = <<>>
    /\ optimized_content = Nothing
    /\ attempt = 0
    /\ retry_delay = base_retry_delay
    /\ attempts_log = <<>>
    /\ sleeps = <<>>
    /\ stages = <<"TARGET_EQUIPMENT", "FETCH_EQUIPMENT_DATA", "BUILD_CONTEXT">>
    /\ calls = [NoCalls EXCEPT !.fetch = Some(equipment_ids)]
    /\ save_i = 0
    /\ save_calls = <<>>
    /\ sanity_docs = {}
    /\ sanity_ids = {}
    /\ notion_calls = {}
    /\ notion_pages = {}

NextText == TextAttemptSucceeds \/ TextAttemptEmpty \/ TextAttemptRaises

SpecText == InitText /\ [][NextText]_vars /\ WF_vars(NextText)

(***************************************************************************)
(* Properties                                                              *)
(***************************************************************************)
Last(seq) == seq[Len(seq)]

IsOverloaded(a) == a.result = "raised" /\ (a.error.has503 \/ a.error.hasOverloadedLower)

IsNonRetryable(a) == a.result = "raised" /\ ~a.error.has503 /\ ~a.error.hasOverloadedLower

AllOverloaded ==
    /\ attempts_log # <<>>
    /\ \A k \in DOMAIN attempts_log : IsOverloaded(attempts_log[k])

AllStages ==
    <<"TARGET_EQUIPMENT", "FETCH_EQUIPMENT_DATA", "BUILD_CONTEXT", "GENERATE_TEXT",
      "GENERATE_IMAGES", "SAFETY_CHECK", "PLATFORM_OPTIMIZE", "ASSEMBLE">>

\* C1: whenever plan_strategic_content(N) returns, it returns exactly N plans
\* and no plan has a higher priority_score than the plan before it.
C1_ExactlyNPlansSortedByScore ==
    pl_pc = "returned" =>
        /\ Len(pl_plans) = pl_num_ideas
        /\ \A i \in 1..(Len(pl_plans) - 1) :
              pl_plans[i].priority_score >= pl_plans[i + 1].priority_score

C1_Witness ==
    /\ pl_pc = "returned"
    /\ Len(pl_plans) = 3
    /\ pl_plans[1].priority_score > pl_plans[2].priority_score
    /\ pl_plans[2].priority_score > pl_plans[3].priority_score

\* C2 as stated: when every attempt of an idea raised an overload error and the
\* attempts are exhausted, the call was retried exactly 3 times, each delay
\* longer than the one before, and the idea has no content and nothing raised.
C2_RetriedExactlyThreeTimes ==
    (AllOverloaded /\ pc # "text") =>
        /\ Len(attempts_log) - 1 = 3
        /\ Len(sleeps) = 3
        /\ \A k \in 1..(Len(sleeps) - 1) : sleeps[k] < sleeps[k + 1]
        /\ content_text = Nothing
        /\ pc # "raised"

\* C2 as amended: while every attempt of an idea raises an overload error the
\* call is made 3 times in all, the first call and 2 retries; a sleep precedes
\* each retry, 2 s then 4 s, each the double of the one before; after the third
\* attempt the idea has no content, no further sleep was made, nothing raised.
C2_ThreeAttemptsTwoDoublingDelays ==
    AllOverloaded =>
        /\ Len(attempts_log) <= 3
        /\ Len(sleeps) = Min(Len(attempts_log), 2)
        /\ \A k \in DOMAIN sleeps : sleeps[k] = IF k = 1 THEN 2 ELSE 2 * sleeps[k - 1]
        /\ \A k \in 1..(Len(sleeps) - 1) : sleeps[k] < sleeps[k + 1]
        /\ pc # "text" =>
              /\ Len(attempts_log) = 3
              /\ sleeps = <<2, 4>>
              /\ content_text = Nothing
              /\ pc \in {"images", "plan_done"}
              /\ pc = "plan_done" => Last(outcomes) = "text_failed"

C2_Witness ==
    /\ AllOverloaded
    /\ pc = "plan_done"
    /\ Len(attempts_log) = 3
    /\ sleeps = <<2, 4>>
    /\ Last(outcomes) = "text_failed"

\* C3: an attempt that raised an error that is neither a 503 nor an overload
\* is the last attempt of its idea, no sleep follows it, the idea has no
\* content, nothing is raised and the idea ends as a failed idea.
C3_OtherErrorEndsTheIdea ==
    \A k \in DOMAIN attempts_log :
        IsNonRetryable(attempts_log[k]) =>
            /\ k = Len(attempts_log)
            /\ pc \in {"images", "plan_done"}
            /\ content_text = Nothing
            /\ Len(sleeps) = Cardinality({j \in 1..(k - 1) : IsOverloaded(attempts_log[j])})
            /\ pc = "plan_done" => Last(outcomes) = "text_failed"

C3_Witness ==
    /\ pc = "plan_done"
    /\ Len(attempts_log) = 2
    /\ IsOverloaded(attempts_log[1])
    /\ IsNonRetryable(attempts_log[2])
    /\ sleeps = <<2>>

\* C4: add_idea_to_notion is called only for a record whose CMS save returned
\* a document id, no record goes to the CMS save twice, and the records
\* mirrored to Notion are among the records written to the CMS.
C4_NotionOnlyAfterCmsWrite ==
    /\ notion_pages \subseteq notion_calls
    /\ notion_calls \subseteq sanity_ids
    /\ sanity_ids \subseteq sanity_docs
    /\ notion_pages \subseteq sanity_docs
    /\ \A r \in DOMAIN save_calls : save_calls[r] <= 1
    /\ pc = "notion" => save_i \in sanity_ids

C4_Witness ==
    /\ exit = "completed"
    /\ Len(generated_content) = 2
    /\ 1 \notin sanity_ids
    /\ 2 \in notion_pages

\* C5: once the save loop has begun, every record before the current one went
\* to the CMS save exactly once whatever came of it, and when main has ended
\* every generated record went to the CMS save exactly once.
C5_EveryRecordSavedOnce ==
    /\ pc \in {"save", "notion"} =>
          /\ DOMAIN save_calls = DOMAIN generated_content
          /\ \A r \in DOMAIN save_calls :
                save_calls[r] = IF r < save_i \/ (r = save_i /\ pc = "notion") THEN 1 ELSE 0
    /\ (pc \in {"done", "raised"} /\ save_calls # <<>>) =>
          /\ exit = "completed"
          /\ DOMAIN save_calls = DOMAIN generated_content
          /\ \A r \in DOMAIN save_calls : save_calls[r] = 1

C5_Witness ==
    /\ exit = "completed"
    /\ Len(generated_content) = 2
    /\ 1 \notin sanity_ids
    /\ save_calls[2] = 1
    /\ 2 \in sanity_ids

\* C6: every plan of the batch is processed; a plan that failed is absent from
\* generated_content and does not stop the plans after it; generated_content
\* holds exactly the plans that produced content, in order.
C6_EveryPlanProcessed ==
    LET produced == {i \in DOMAIN outcomes : outcomes[i] = "content"}
    IN  /\ exit # "processing_error"
        /\ Len(outcomes) <= Len(content_plans)
        /\ Len(generated_content) = Cardinality(produced)
        /\ Len(generated_content) <= num_ideas
        /\ \A k \in DOMAIN generated_content : generated_content[k].plan \in produced
        /\ \A k \in 1..(Len(generated_content) - 1) :
              generated_content[k].plan < generated_content[k + 1].plan
        /\ (pc \in {"save", "notion"} \/ exit \in {"no_content", "completed"}) =>
              /\ Len(content_plans) = num_ideas
              /\ Len(outcomes) = Len(content_plans)

C6_Witness ==
    /\ pc = "save"
    /\ outcomes = <<"error", "content">>
    /\ Len(generated_content) = 1
    /\ generated_content[1].plan = 2

\* C7: an idea whose equipment target is empty ends at once without content:
\* no fetch, no text generation, no image step, no safety check, no assembly,
\* and nothing is raised.
C7_EmptyTargetSkipsTheIdea ==
    (stages # <<>> /\ equipment_ids = <<>>) =>
        /\ pc = "plan_done"
        /\ Last(outcomes) = "no_equipment"
        /\ stages = <<"TARGET_EQUIPMENT">>
        /\ calls = NoCalls
        /\ attempts_log = <<>>
        /\ content_text = Nothing
        /\ optimized_content = Nothing
        /\ Len(generated_content) = Cardinality({i \in DOMAIN outcomes : outcomes[i] = "content"})

C7_Witness ==
    /\ pc = "plan_done"
    /\ stages = <<"TARGET_EQUIPMENT">>
    /\ equipment_ids = <<>>
    /\ Last(outcomes) = "no_equipment"

\* C8: when image enhancement raised, the idea goes on with no image, and when
\* its text was generated it passes the safety check, the platform
\* optimization and the assembly and is returned as generated content.
C8_ImageFailureIsNotFatal ==
    calls.image_raised =>
        /\ enhanced_images = <<>>
        /\ content_text # Nothing =>
              /\ pc \in {"safety", "optimize", "assemble", "plan_done"}
              /\ pc = "plan_done" =>
                    /\ Last(outcomes) = "content"
                    /\ stages = AllStages
                    /\ Last(generated_content).plan = plan_i
                    /\ ~Last(generated_content).content.has_images
                    /\ Last(generated_content).content.image_count = 0
                    /\ Last(generated_content).content.optimized_images = <<>>

C8_Witness ==
    /\ pc = "plan_done"
    /\ calls.image_raised
    /\ Last(outcomes) = "content"
    /\ ~Last(generated_content).content.has_images

Flagged == calls.safety # Nothing /\ ~calls.safety[1].is_safe

C10_BodyTruncatedToMax ==
    (pc = "assemble" /\ optimized_content # Nothing) =>
        LET entry    == config.platform_config[lower(CurrentPlan.target_platform)]
            original == content_text[1].body
            body     == optimized_content[1].body
        IN  (entry.configured /\ entry.hasMax) =>
                /\ Len(original) > entry.max =>
                      /\ Len(body) = entry.max
                      /\ body = SubSeq(original, 1, entry.max - 3) \o <<".", ".", ".">>
                /\ Len(original) <= entry.max => body = original
                /\ Len(body) <= entry.max

\* C11: the equipment-data fetch of an idea is called with exactly the ID list
\* that get_equipment_targets returned for its plan, and the image pipeline of
\* the idea is handed every record the fetch returned, in the same order.
C11_FetchAndImagesGetTheTargets ==
    /\ calls.fetch # Nothing =>
          /\ equipment_target # Nothing
          /\ calls.fetch[1] = equipment_target[1].specific_equipment_ids
          /\ \A i \in DOMAIN equipment_data : equipment_data[i]._id \in Range(calls.fetch[1])
    /\ calls.enhance # Nothing =>
          /\ calls.fetch # Nothing
          /\ equipment_data # <<>>
          /\ calls.enhance[1] = equipment_data
    /\ (pc \in {"safety", "optimize", "assemble"}
          \/ (pc = "plan_done" /\ Last(outcomes) \in {"content", "text_failed"})) =>
          calls.enhance # Nothing

C11_Witness ==
    /\ pc = "plan_done"
    /\ num_ideas = 1
    /\ Last(outcomes) = "content"
    /\ CurrentPlan.pillar = "equipment_spotlight"
    /\ CurrentPlan.target_platform = "Facebook"
    /\ calls.fetch = Some(<<"e2", "e1">>)
    /\ calls.enhance = Some(<<Catalog[1], Catalog[2]>>)

AllZeroWeights(cfg) ==
    /\ cfg.pillar_weights # <<>>
    /\ \A i \in DOMAIN cfg.pillar_weights : cfg.pillar_weights[i].v = 0

TheQuery == CHOOSE query \in inputs.queries : TRUE

\* C14: whatever the catalog query answers and whatever the selection rules,
\* the ID list of the EquipmentTarget is no longer than the configured
\* maxEquipmentPerPost, 3 when the rules do not configure it.
C14_TargetsWithinMaxEquipment ==
    equipment_target # Nothing =>
        LET ids   == equipment_target[1].specific_equipment_ids
            limit == IF config.rules.hasMaxEquipmentPerPost
                     THEN config.rules.maxEquipmentPerPost ELSE 3
        IN  /\ Len(ids) <= limit
            /\ Len(ids) <= Len(TheQuery.result)
            /\ \A i \in DOMAIN ids : \E j \in DOMAIN TheQuery.result : TheQuery.result[j]._id = ids[i]
            /\ equipment_ids = ids

C14_Witness ==
    /\ equipment_target # Nothing
    /\ ~config.rules.hasMaxEquipmentPerPost
    /\ ~TheQuery.failed
    /\ Len(TheQuery.result) = 4
    /\ Len(equipment_target[1].specific_equipment_ids) = 3
    /\ pc = "fetch"

\* C15: enhance_equipment_images returns at most one entry for each of the
\* first maxImagesPerPost equipment records, so a list no longer than
\* min(len(equipment), maxImagesPerPost), and every entry, enhanced or
\* original, has a non-empty alt_text and a non-empty caption, also for a
\* record without name or description or with an empty one.
C15_ImagesBoundedAndDescribed ==
    LET NonEmptyText(parts) == \E i \in DOMAIN parts : parts[i] # ""
    IN  calls.enhance # Nothing =>
            /\ Len(enhanced_images) <= Len(calls.enhance[1])
            /\ Len(enhanced_images) <= config.maxImagesPerPost
            /\ \A i \in DOMAIN enhanced_images :
                  /\ enhanced_images[i].type \in {"enhanced", "original"}
                  /\ NonEmptyText(enhanced_images[i].alt_text)
                  /\ NonEmptyText(enhanced_images[i].caption)
                  /\ \E j \in 1..Min(Len(calls.enhance[1]), config.maxImagesPerPost) :
                        calls.enhance[1][j]._id = enhanced_images[i].equipment_id
            /\ \A i, j \in DOMAIN enhanced_images :
                  i # j => enhanced_images[i].equipment_id # enhanced_images[j].equipment_id

C15_Witness ==
    /\ calls.enhance # Nothing
    /\ Len(calls.enhance[1]) = 3
    /\ config.maxImagesPerPost = 2
    /\ Len(enhanced_images) = 2
    /\ enhanced_images[1].type = "enhanced"
    /\ enhanced_images[1].equipment_id = "e2"
    /\ enhanced_images[2].type = "original"
    /\ enhanced_images[2].equipment_id = "e4"

\* C16: load_all_configurations queries the documents in the order content
\* strategy, seasonal, image generation, platform, each at most once; it
\* returns false at the first document that is missing or whose query fails,
\* with the fields before it holding the documents of this call, the failed
\* field empty and the later fields not queried and left as they were (empty
\* on a fresh loader); it returns true only with all four fields populated.
C16_LoadStopsAtFirstMissingDocument ==
    loader.last # <<>> =>
        LET call == loader.last[1]
            k    == Len(call.queries)
        IN  /\ k \in 1..4
            /\ call.queries = SubSeq(ConfigFields, 1, k)
            /\ \A j \in 1..(k - 1) : loader.fields[ConfigFields[j]] = <<loader.loads>>
            /\ call.ok =>
                  /\ k = 4
                  /\ \A j \in 1..4 : loader.fields[ConfigFields[j]] = <<loader.loads>>
            /\ ~call.ok =>
                  /\ loader.fields[ConfigFields[k]] = <<>>
                  /\ \A j \in (k + 1)..4 :
                        loader.fields[ConfigFields[j]] = call.before[ConfigFields[j]]
                  /\ loader.loads = 1 =>
                        \A j \in (k + 1)..4 : loader.fields[ConfigFields[j]] = <<>>
            /\ (\A j \in 1..4 : loader.fields[ConfigFields[j]] = <<loader.loads>>) => call.ok

C16_Witness ==
    /\ loader.loads = 1
    /\ loader.last # <<>>
    /\ ~loader.last[1].ok
    /\ loader.last[1].queries = <<"content_strategy", "seasonal_config", "image_config">>
    /\ loader.fields["content_strategy"] = <<1>>
    /\ loader.fields["seasonal_config"] = <<1>>
    /\ loader.fields["image_config"] = <<>>
    /\ loader.fields["platform_config"] = <<>>

\* C17 as stated: an accessor that is called on a loader on which no call of
\* load_all_configurations has returned true raises, and an accessor returns
\* a value only after such a call.
C17_AccessorsRaiseBeforeSuccessfulLoad ==
    loader.access # <<>> =>
        (~loader.succeeded => loader.access[1].raised)

\* C17 as amended: an accessor raises exactly when its own field is empty:
\* every accessor raises before any load, no accessor raises after a load that
\* returned true, and after a load that returned false on a fresh loader the
\* accessors of the fields loaded before the failure return their documents
\* while those of the failed field and of the later fields raise.
C17_AccessorsRaiseOnEmptyField ==
    LET FieldIndex(f) == CHOOSE k \in DOMAIN ConfigFields : ConfigFields[k] = f
    IN  loader.access # <<>> =>
            LET a == loader.access[1]
            IN  /\ a.raised <=> loader.fields[a.field] = <<>>
                /\ ~a.raised => a.value = loader.fields[a.field] /\ a.value # <<>>
                /\ loader.loads = 0 => a.raised
                /\ (loader.last # <<>> /\ loader.last[1].ok) => ~a.raised
                /\ (loader.loads = 1 /\ ~loader.last[1].ok) =>
                      (a.raised <=> FieldIndex(a.field) >= Len(loader.last[1].queries))

C17_Witness ==
    /\ loader.loads = 1
    /\ ~loader.succeeded
    /\ loader.last[1].queries = <<"content_strategy", "seasonal_config">>
    /\ loader.access # <<>>
    /\ loader.access[1].field = "content_strategy"
    /\ ~loader.access[1].raised
    /\ loader.access[1].value = <<1>>

C19_FailedQueryGivesDefaultTarget ==
    (equipment_target # Nothing /\ TheQuery.failed) =>
        /\ equipment_target[1].category = CurrentPlan.equipment_category
        /\ equipment_target[1].specific_equipment_ids = <<>>
        /\ equipment_target[1].priority_reasons = <<"Default equipment selection">>
        /\ pc = "plan_done"
        /\ outcomes = <<"no_equipment">>
        /\ exit = ""

C19_Witness ==
    /\ TheQuery.failed
    /\ equipment_target # Nothing
    /\ equipment_target[1].priority_reasons = <<"Default equipment selection">>
    /\ equipment_target[1].category = "Heating"
    /\ config.rules.prioritizeUnderutilized
    /\ pc = "plan_done"

\* C20: the target_platform of every plan is one of Facebook, Instagram, Blog;
\* for a pillar without a special rule it is a platform of positive weight of
\* the configured platform preferences, and Facebook when the weights sum to
\* zero.
C20_PlatformIsFacebookInstagramOrBlog ==
    \A i \in DOMAIN pl_plans :
        /\ pl_plans[i].target_platform \in {"Facebook", "Instagram", "Blog"}
        /\ pl_plans[i].pillar \notin {"equipment_spotlight", "project_showcase", "educational_content", "safety_training"} =>
              IF SumSeq(Values(config.platform_preferences)) > 0
              THEN \E k \in DOMAIN config.platform_preferences :
                      /\ config.platform_preferences[k].k = pl_plans[i].target_platform
                      /\ config.platform_preferences[k].v > 0
              ELSE pl_plans[i].target_platform = "Facebook"

\* C21: in main.main a page is marked Posted only after post_to_social_media
\* completed for it; an approved item with no content, or whose post raised,
\* is not marked Posted, and its error is reported without main raising.
C21_PostedOnlyAfterPostAndErrorsContained ==
        \* the pages update_notion_status completed for
    LET MarkedPosted == {poster.events[k].page : k \in {j \in DOMAIN poster.events :
                            poster.events[j].call = "update_notion_status" /\ poster.events[j].completed}}
    IN  /\ \A k \in DOMAIN poster.events :
              poster.events[k].call = "update_notion_status" =>
                  \E j \in 1..(k - 1) :
                      /\ poster.events[j].call = "post_to_social_media"
                      /\ poster.events[j].page = poster.events[k].page
                      /\ poster.events[j].completed
        /\ \A k \in 1..poster.i :
              LET item == poster.approved_content[k]
              IN  (\/ ContentLookupRaises(item)
                   \/ \E j \in DOMAIN poster.events :
                         /\ poster.events[j].call = "post_to_social_media"
                         /\ poster.events[j].page = item.id
                         /\ ~poster.events[j].completed)
                  => /\ item.id \notin MarkedPosted
                     /\ poster.pc # "raised"

\* C22: for each idea the stages run in the order PLAN, TARGET_EQUIPMENT,
\* FETCH_EQUIPMENT_DATA, BUILD_CONTEXT, {GENERATE_TEXT, GENERATE_IMAGES},
\* SAFETY_CHECK, PLATFORM_OPTIMIZE, ASSEMBLE, PERSIST: a stage starts only
\* after the stage before it, SAFETY_CHECK only after both GENERATE_TEXT and
\* GENERATE_IMAGES, and PERSIST only for an idea that completed ASSEMBLE.
C22_StagesRunInOrder ==
        \* s is an initial part of t
    LET IsPrefix(s, t) == Len(s) <= Len(t) /\ s = SubSeq(t, 1, Len(s))
        \* the position of a stage in the stages of the current idea, 0 when absent
        StageIndex(stage) ==
            IF stage \in Range(stages) THEN CHOOSE k \in DOMAIN stages : stages[k] = stage ELSE 0
    IN  /\ stages # <<>> => plan_i \in DOMAIN content_plans
        /\ \/ IsPrefix(stages, AllStages)
           \/ IsPrefix(stages, <<"TARGET_EQUIPMENT", "FETCH_EQUIPMENT_DATA", "BUILD_CONTEXT",
                                 "GENERATE_IMAGES", "GENERATE_TEXT", "SAFETY_CHECK",
                                 "PLATFORM_OPTIMIZE", "ASSEMBLE">>)
        /\ "SAFETY_CHECK" \in Range(stages) =>
              /\ StageIndex("GENERATE_TEXT") \in 1..(StageIndex("SAFETY_CHECK") - 1)
              /\ StageIndex("GENERATE_IMAGES") \in 1..(StageIndex("SAFETY_CHECK") - 1)
              /\ pc # "text"
        /\ \A k \in DOMAIN save_calls :
              save_calls[k] > 0 =>
                  /\ k \in DOMAIN generated_content
                  /\ outcomes[generated_content[k].plan] = "content"
        /\ \A k \in DOMAIN generated_content :
              \/ outcomes[generated_content[k].plan] = "content"
              \/ (generated_content[k].plan = plan_i /\ stages = AllStages)

\* an idea went through every stage and its record was handed to the CMS
C22_Witness ==
    /\ Len(content_plans) = 2
    /\ outcomes = <<"content", "content">>
    /\ save_calls = <<1, 1>>
    /\ pc = "done"

\* C23: for one idea, text generation and image enhancement overlap in time:
\* image enhancement is issued before text generation has completed, so by
\* the time the text has come back the image request is already out.
C23_ImagesIssuedBeforeTextReturns ==
    (attempts_log # <<>> /\ pc # "text") => calls.enhance # Nothing

\* the items enhance_equipment_images looked at: equipment_data[:max_images]
ProcessedItems == PySlicePrefix(calls.enhance[1], config.maxImagesPerPost)

\* the entries of enhanced_images made for the item with this id
EntriesOf(id) == {i \in DOMAIN enhanced_images : enhanced_images[i].equipment_id = id}

\* C24: in enhance_equipment_images every input item yields at most one
\* entry, the entries follow the input order, and an item that fails (no
\* image url, failed download, failed enhancement, exception) does not stop
\* the items after it from being processed.
C24_OneEntryPerItemInOrderNoAbort ==
        \* the position of the item an entry was made for
    LET ItemOf(i) ==
            CHOOSE j \in DOMAIN ProcessedItems : ProcessedItems[j]._id = enhanced_images[i].equipment_id
    IN  (calls.enhance # Nothing /\ ~calls.image_raised) =>
            /\ \A j \in DOMAIN calls.enhance[1] :
                  Cardinality(EntriesOf(calls.enhance[1][j]._id)) <= 1
            /\ \A i \in DOMAIN enhanced_images :
                  \E j \in DOMAIN ProcessedItems :
                      ProcessedItems[j]._id = enhanced_images[i].equipment_id
            /\ \A i1, i2 \in DOMAIN enhanced_images : i1 < i2 => ItemOf(i1) < ItemOf(i2)
            /\ \A j \in DOMAIN ProcessedItems :
                  (/\ _get_equipment_image_url(ProcessedItems[j]) # Nothing
                   /\ calls.image_outcome[j] # "download_failed")
                  => EntriesOf(ProcessedItems[j]._id) # {}

\* the first item has no image url and the second one's prompt raises: the
\* third is still enhanced
C24_Witness ==
    /\ calls.enhance # Nothing
    /\ ~calls.image_raised
    /\ Len(ProcessedItems) = 3
    /\ _get_equipment_image_url(ProcessedItems[1]) = Nothing
    /\ calls.image_outcome[2] = "prompt_raises"
    /\ calls.image_outcome[3] = "enhanced"
    /\ Len(enhanced_images) = 2
    /\ enhanced_images[1].type = "original"
    /\ enhanced_images[2].type = "enhanced"
    /\ enhanced_images[2].equipment_id = ProcessedItems[3]._id

\* C25: an item whose image url was found and downloaded and whose
\* enhancement failed or came back empty gives an entry of type original
\* with that item's own url and equipment id; an item without image url, or
\* whose download failed, gives no entry.
C25_FallbackToOwnOriginalOrSkip ==
    (calls.enhance # Nothing /\ ~calls.image_raised) =>
        \A j \in DOMAIN ProcessedItems :
            LET item == ProcessedItems[j]
                url  == _get_equipment_image_url(item)
            IN  /\ (url # Nothing /\ calls.image_outcome[j] \in {"prompt_raises", "enhance_none"}) =>
                      \E i \in DOMAIN enhanced_images :
                          /\ enhanced_images[i].equipment_id = item._id
                          /\ enhanced_images[i].type = "original"
                          /\ enhanced_images[i].url = url
                          /\ enhanced_images[i].image_data = <<>>
                /\ (url = Nothing \/ calls.image_outcome[j] = "download_failed") =>
                      EntriesOf(item._id) = {}

\* e2 (url from its images array) falls back to its original, e5 (no url)
\* and a failed download are skipped
C25_Witness ==
    /\ calls.enhance # Nothing
    /\ ~calls.image_raised
    /\ Len(ProcessedItems) = 3
    /\ ProcessedItems[1]._id = "e5"
    /\ ProcessedItems[2]._id = "e2"
    /\ calls.image_outcome[2] = "enhance_none"
    /\ calls.image_outcome[3] = "download_failed"
    /\ enhanced_images = <<_create_fallback_image_entry(Catalog[2], "cdn/e2-a.jpg")>>

\* the platform document optimize_for_platform looks up for the current plan
CurrentPlatformEntry == config.platform_config[lower(CurrentPlan.target_platform)]

\* C26: optimize_for_platform is metadata-only: its result has the length and
\* order of its input, every entry keeps the input entry's image bytes, url,
\* alt_text, caption, type and equipment id and only gains the platform tag
\* and the target width and height; the input entries are as they were, and
\* without a platform spec the input list itself is the result.
C26_OptimizeImagesOnlyAddsMetadata ==
    (pc = "assemble" /\ optimized_content # Nothing /\ enhanced_images # <<>>) =>
        LET out == optimized_content[1].optimized_images
        IN  /\ Len(out) = Len(enhanced_images)
            /\ \A i \in DOMAIN enhanced_images :
                  /\ out[i].type = enhanced_images[i].type
                  /\ out[i].equipment_id = enhanced_images[i].equipment_id
                  /\ out[i].image_data = enhanced_images[i].image_data
                  /\ out[i].url = enhanced_images[i].url
                  /\ out[i].alt_text = enhanced_images[i].alt_text
                  /\ out[i].caption = enhanced_images[i].caption
                  /\ enhanced_images[i].platform_optimized = <<>>
                  /\ enhanced_images[i].target_dimensions = <<>>
                  /\ (CurrentPlatformEntry.configured /\ CurrentPlatformEntry.hasImageSpecs) =>
                        /\ out[i].platform_optimized = <<CurrentPlan.target_platform>>
                        /\ out[i].target_dimensions # <<>>
                        /\ out[i].target_dimensions[1].width =
                              GetOr(CurrentPlatformEntry.width, default_dimension)
                        /\ out[i].target_dimensions[1].height =
                              GetOr(CurrentPlatformEntry.height, default_dimension)
            /\ ~(CurrentPlatformEntry.configured /\ CurrentPlatformEntry.hasImageSpecs) =>
                  out = enhanced_images

\* an original and an enhanced entry tagged for a platform whose imageSpecs
\* give a width but no height
C26_Witness ==
    /\ pc = "assemble"
    /\ optimized_content # Nothing
    /\ Len(enhanced_images) = 2
    /\ enhanced_images[1].type = "original"
    /\ enhanced_images[1].url # <<>>
    /\ enhanced_images[2].type = "enhanced"
    /\ CurrentPlatformEntry.width = <<1200>>
    /\ CurrentPlatformEntry.height = <<>>
    /\ optimized_content[1].optimized_images[1].url = enhanced_images[1].url
    /\ optimized_content[1].optimized_images[2].target_dimensions = <<[width |-> 1200, height |-> 1080]>>

\* C27: the equipment category of every plan is one of the allowlist of the
\* plan's pillar; for seasonal_content it is one implied by the season's
\* equipment-priority list when such a category is in the allowlist, and a
\* pick from the seasonal_content allowlist when none is.
C27_CategoryFromPillarAllowlist ==
        \* the categories the current season's equipment-priority list implies
    LET SeasonalCategories ==
            [i \in DOMAIN config.seasonal_equipment_priority |->
                category_mapping(config.seasonal_equipment_priority[i])]
    IN  \A i \in DOMAIN pl_plans :
            LET plan      == pl_plans[i]
                allowlist == Range(PillarCategoriesGet(plan.pillar, <<"Earth Moving Equipment">>))
            IN  /\ plan.equipment_category \in allowlist
                /\ (plan.pillar = "seasonal_content" /\ Range(SeasonalCategories) \cap allowlist # {}) =>
                      plan.equipment_category \in Range(SeasonalCategories) \cap allowlist

\* C28: over any number of process_ready_content cycles, and whatever the
\* Notion status updates do, a page leads to at most one successfully
\* created Facebook post: once create_post succeeded for it, it is not
\* submitted again.
C28_AtMostOnePostPerPage ==
    \A p \in SchedPageIds : Len(sched.entries[p].posts) <= 1

\* C29: the scheduler writes a status only after the Facebook call for it
\* succeeded and only forward, Ready for Scheduling -> Scheduled -> Posted or
\* Ready for Scheduling -> Posted: a page with a future Post Date becomes
\* Scheduled with the Facebook post id stored, one with no or a past Post Date
\* becomes Posted, a Scheduled page becomes Posted only once Facebook reports
\* the post as published, no page moves back, and invalid or non-Facebook
\* content is never posted and keeps its status.
C29_StatusOnlyMovesForwardAfterFacebook ==
        \* the order of the statuses a page goes through
    LET StatusRank(status) ==
            CASE status = Ready       -> 0
              [] status = "Scheduled" -> 1
              [] status = "Posted"    -> 2
    IN  \A p \in SchedPageIds :
            LET e == sched.entries[p]
            IN  /\ e.page.status = IF e.writes = <<>> THEN Ready ELSE Last(e.writes).to
                /\ \A k \in DOMAIN e.writes :
                      LET w == e.writes[k]
                      IN  /\ w.post_id \in DOMAIN e.posts
                          /\ w.to \in {"Scheduled", "Posted"}
                          /\ StatusRank(w.from) <= StatusRank(w.to)
                          /\ w.from = (IF k = 1 THEN Ready ELSE e.writes[k - 1].to)
                          /\ w.by = "schedule_post" =>
                                /\ w.from = Ready
                                /\ w.time = "future" => (w.to = "Scheduled" /\ e.posts[w.post_id].scheduled)
                                /\ w.time \in {"none", "past"} => w.to = "Posted"
                          /\ w.to = "Scheduled" => (w.by = "schedule_post" /\ w.time = "future")
                          /\ (w.from = "Scheduled" /\ w.to = "Posted") => w.published
                          /\ w.by # "schedule_post" => (w.to = "Posted" /\ w.published)
                /\ e.page.status = "Scheduled" =>
                      (e.page.post_id # <<>> /\ e.page.post_id[1] \in DOMAIN e.posts)
                /\ (~validate_content(e.page) \/ ~IsFacebook(e.page.platform)) =>
                      (e.posts = <<>> /\ e.writes = <<>> /\ e.page.status = Ready)

\* page n1 was scheduled and later found published, page n2 is not Facebook
\* content and was left alone through two cycles
C29_Witness ==
    /\ sched.cycles = 2
    /\ Len(sched.entries["n1"].writes) = 2
    /\ sched.entries["n1"].writes[1].to = "Scheduled"
    /\ sched.entries["n1"].writes[2].from = "Scheduled"
    /\ sched.entries["n1"].writes[2].to = "Posted"
    /\ sched.entries["n1"].page.status = "Posted"
    /\ sched.entries["n2"].page.platform = "Instagram"
    /\ sched.entries["n2"].page.status = Ready

\* C30: _generate_content_text always terminates; whatever mix of overload
\* errors, other errors and empty results it meets it makes at most 3 calls
\* and at most 2 backoff sleeps, sleeps only after an overload error, and
\* goes from an attempt without ideas (an unparseable model response
\* included) to the next attempt without delay.
C30_TextGenerationTerminatesWithinBounds ==
    /\ [](/\ Len(attempts_log) <= 3
          /\ Len(sleeps) <= 2
          /\ Len(sleeps) = Cardinality({j \in DOMAIN attempts_log : j < max_retries /\ IsOverloaded(attempts_log[j])})
          /\ \A k \in DOMAIN attempts_log :
                attempts_log[k].result = "empty" =>
                    /\ ~(k < max_retries /\ IsOverloaded(attempts_log[k]))
                    /\ (k < max_retries /\ pc # "text") => Len(attempts_log) > k
          /\ pc # "text" =>
                \/ content_text # Nothing /\ Last(attempts_log).result = "ideas"
                \/ content_text = Nothing /\ Len(attempts_log) = max_retries
                \/ content_text = Nothing /\ IsNonRetryable(Last(attempts_log)))
    /\ (pc = "text") ~> (pc # "text")

\* an unparseable response, then an overload error with its sleep, then an
\* empty array: three calls, one sleep, no content
C30_Witness ==
    /\ pc = "images"
    /\ Len(attempts_log) = 3
    /\ attempts_log[1] = Attempt("empty", Swallowed("unparseable"))
    /\ IsOverloaded(attempts_log[2])
    /\ attempts_log[3] = Attempt("empty", Swallowed("json_empty"))
    /\ sleeps = <<2>>
    /\ content_text = Nothing

====
